---- MODULE Spec2Model ----
(***************************************************************************)
(* Model of nasa-space-events/space_weather_timeline.py: the three DONKI   *)
(* fetch/normalize functions, the id-keyed cross-reference dictionaries,   *)
(* the link resolution of every chart and of the summary, and main().      *)
(*                                                                         *)
(* Timestamps are whole hours since an epoch; a timedelta is a difference  *)
(* of hours.  An optional value (a dict key that may be missing, a Python  *)
(* None) is the empty tuple when absent and a one-element tuple otherwise. *)
(*                                                                         *)
(* Model of wake-word-assistant: WakeWordDetector with its detection       *)
(* threads and lock, SpeechRecognizer with its capture threads, and        *)
(* WakeWordAssistantApp with the Tk event queue that root.after feeds.     *)
(* A thread is a position per slot; "none" is a slot without a thread.     *)
(***************************************************************************)
EXTENDS Integers, Sequences, FiniteSets, TLC

VARIABLES
    pc,               \* position of main()
    raw,              \* JSON body received per endpoint (<<>> before the request)
    requests,         \* number of GET requests issued per endpoint
    flares,           \* main's local `flares`
    cmes,             \* main's local `cmes`
    storms,           \* main's local `storms`
    exc,              \* exception that ended the run ("none" if none)
    printed,          \* lines printed so far (tags, in order)
    charts,           \* chart files saved so far
    travel_times,     \* print_event_summary: travel_times
    connection_lines, \* create_timeline_chart: arrows drawn, in order
    flr_cme_pairs,    \* create_pairwise_flr_cme: linked_pairs
    cme_gst_pairs,    \* create_pairwise_cme_gst: linked_pairs
    cme_gst_hours,    \* create_pairwise_cme_gst: travel_times of the histogram
    full_chains,      \* create_pairwise_flr_gst: full_chains
    counts,           \* print_event_summary: the len() printed per type
    avg_time,         \* print_event_summary: avg_time, where it is printed
    stats_text,       \* create_gst_chart: the statistics panel
    is_running,       \* WakeWordAssistantApp._is_running
    button,           \* state of start_button ("normal" or "disabled")
    status,           \* text of status_label
    scheduled,        \* callbacks scheduled with root.after(0, ...), in order
    gui,              \* position of the Tk main thread ("idle": in mainloop),
                      \* the thread that calls the detector
    starter,          \* position of the thread _start_listening starts
    listeners,        \* position of each SpeechRecognizer._listen_thread
    callbacks,        \* callbacks each running _listen_thread has invoked
    is_listening,     \* SpeechRecognizer._is_listening
    on_wake_word,     \* WakeWordDetector.on_wake_word
    running,          \* WakeWordDetector._running
    paused,           \* WakeWordDetector._paused
    lock,             \* thread holding WakeWordDetector._lock, if any
    thread,           \* WakeWordDetector._thread
    audio,            \* WakeWordDetector._audio is set
    stream,           \* WakeWordDetector._stream is set (and open)
    model,            \* WakeWordDetector._model is set
    detectors,        \* position of each _detection_loop thread
    closed            \* the window was closed and the process has ended

weather == <<pc, raw, requests, flares, cmes, storms, exc, printed, charts,
             travel_times, connection_lines, flr_cme_pairs, cme_gst_pairs,
             cme_gst_hours, full_chains, counts, avg_time, stats_text>>

app == <<is_running, button, status, scheduled, gui, starter, closed>>

recognizer == <<listeners, callbacks, is_listening>>

detector == <<on_wake_word, running, paused, lock, thread, audio, stream,
              model, detectors>>

assistant == <<app, recognizer, detector>>

vars == <<weather, assistant>>

(***************************************************************************)
(* Bounds of the model.                                                    *)
(***************************************************************************)
MaxRecords == 2      \* records in one response body
MaxFlares == 2       \* flares in a resolver input
MaxCmes == 2         \* CMEs in a resolver input
MaxStorms == 1       \* storms in a resolver input
MaxLinks == 2        \* link ids on one event
MaxLinksTotal == 3   \* link ids over all events of a resolver input
MaxEvents == 4       \* events over the three lists of a resolver input
MaxThreads == 2      \* detection threads alive at once
MaxListeners == 2    \* command-capture threads alive at once
MaxQueue == 3        \* callbacks waiting in the Tk event queue

None == <<>>
Some(v) == <<v>>

Types == {"FLR", "CME", "GST"}

\* Python's None where a str is expected: the value dict.get returns for a
\* key that is present with a JSON null
PyNone == "<None>"

\* Flatten with each part put in front of what was collected before
RECURSIVE FlattenPrepend(_)
FlattenPrepend(ss) ==
    IF ss = <<>> THEN <<>> ELSE FlattenPrepend(Tail(ss)) \o Head(ss)

RECURSIVE Flatten(_)
Flatten(ss) == IF ss = <<>> THEN <<>> ELSE Head(ss) \o Flatten(Tail(ss))

RECURSIVE SumSeq(_)
SumSeq(s) == IF s = <<>> THEN 0 ELSE Head(s) + SumSeq(Tail(s))

Last(S) == CHOOSE m \in S : \A x \in S : x <= m
First(S) == CHOOSE m \in S : \A x \in S : m <= x

(***************************************************************************)
(* SpaceEvent and the normalizers.                                         *)
(***************************************************************************)
SpaceEvent(id, type, start, end, inten, linked) ==
    [event_id |-> id, event_type |-> type, start_time |-> start,
     end_time |-> end, intensity |-> inten, linked_events |-> linked]

\* A timestamp text: the hour it denotes and its zone suffix ("Z", "+00:00",
\* or "garbage" for a text that is no ISO timestamp).
Timestamp(h, z) == [hours |-> h, zone |-> z]

\* str.replace("Z", "+00:00")
ReplaceZ(ts) == IF ts.zone = "Z" THEN [ts EXCEPT !.zone = "+00:00"] ELSE ts

\* datetime.fromisoformat: the datetime, or None where it raises ValueError
fromisoformat(ts) == IF ts.zone = "+00:00" THEN Some(ts.hours) ELSE None

\* record[key] followed by fromisoformat(....replace("Z", "+00:00"))
ParseRequired(field) ==
    IF field = None THEN [exc |-> "KeyError", value |-> None]
    ELSE IF fromisoformat(ReplaceZ(field[1])) = None
         THEN [exc |-> "ValueError", value |-> None]
         ELSE [exc |-> "none", value |-> fromisoformat(ReplaceZ(field[1]))]

\* Linked with an id kept only where it occurs first
LinkedDistinct(field) ==
    IF field = None \/ field = Some(<<>>) THEN <<>>
    ELSE LET ids == [i \in 1..Len(field[1]) |->
                        IF field[1][i] = None THEN "" ELSE field[1][i][1]]
         IN  Flatten([i \in 1..Len(ids) |->
                 IF \E j \in 1..(i - 1) : ids[j] = ids[i] THEN <<>>
                 ELSE <<ids[i]>>])

\* [e.get("activityID", "") for e in record["linkedEvents"]] under
\* `if record.get("linkedEvents")`
Linked(field) ==
    IF field = None \/ field = Some(<<>>) THEN <<>>
    ELSE [i \in 1..Len(field[1]) |->
            IF field[1][i] = None THEN "" ELSE field[1][i][1]]

NormalizeFlare(flare) ==
    LET start == ParseRequired(flare.beginTime)
        end == IF flare.endTime = None THEN [exc |-> "none", value |-> None]
               ELSE IF fromisoformat(ReplaceZ(flare.endTime[1])) = None
                    THEN [exc |-> "ValueError", value |-> None]
                    ELSE [exc |-> "none",
                          value |-> fromisoformat(ReplaceZ(flare.endTime[1]))]
        intensity == IF flare.classType = None THEN "Unknown"
                     ELSE flare.classType[1]
    IN  IF start.exc # "none" THEN [exc |-> start.exc, event |-> None]
        ELSE IF end.exc # "none" THEN [exc |-> end.exc, event |-> None]
        ELSE [exc |-> "none",
              event |-> Some(SpaceEvent(flare.flrID, "FLR", start.value[1],
                                        end.value, intensity,
                                        Linked(flare.linkedEvents)))]

\* CmeIntensity composed from the analysis of the highest speed
CmeIntensityFastest(analyses) ==
    IF analyses = None \/ analyses = Some(<<>>) THEN "N/A"
    ELSE LET as == analyses[1]
             sp(i) == IF as[i].speed = None THEN 0 ELSE as[i].speed[1]
             analysis == as[First({i \in 1..Len(as) :
                                    \A j \in 1..Len(as) : sp(j) <= sp(i)})]
         IN  ToString(<<IF analysis.type = None THEN "Unknown"
                        ELSE analysis.type[1], sp(
                            First({i \in 1..Len(as) :
                                    \A j \in 1..Len(as) : sp(j) <= sp(i)}))>>)

\* f"{cme_type} ({speed} km/s)" as the pair of its two parts
CmeIntensity(analyses) ==
    IF analyses = None \/ analyses = Some(<<>>) THEN "N/A"
    ELSE LET analysis == analyses[1][1]
             speed == IF analysis.speed = None THEN 0 ELSE analysis.speed[1]
             cme_type == IF analysis.type = None THEN "Unknown"
                         ELSE analysis.type[1]
         IN  ToString(<<cme_type, speed>>)

\* NormalizeCme with the start time also stored as end time
NormalizeCmeWithEnd(cme) ==
    LET start == ParseRequired(cme.startTime)
    IN  IF start.exc # "none" THEN [exc |-> start.exc, event |-> None]
        ELSE [exc |-> "none",
              event |-> Some(SpaceEvent(cme.activityID, "CME", start.value[1],
                                        start.value, CmeIntensity(cme.cmeAnalyses),
                                        Linked(cme.linkedEvents)))]

NormalizeCme(cme) ==
    LET start == ParseRequired(cme.startTime)
    IN  IF start.exc # "none" THEN [exc |-> start.exc, event |-> None]
        ELSE [exc |-> "none",
              event |-> Some(SpaceEvent(cme.activityID, "CME", start.value[1],
                                        None, CmeIntensity(cme.cmeAnalyses),
                                        Linked(cme.linkedEvents)))]

\* lambda x: x.get("kpIndex", 0)
KpKey(reading) == IF reading = None THEN 0 ELSE reading[1]

\* MaxKpPosition with the last of several maximal readings taken
MaxKpPositionLast(rs) ==
    Last({i \in 1..Len(rs) : \A j \in 1..Len(rs) : KpKey(rs[j]) <= KpKey(rs[i])})

\* max(readings, key=...): the position of the reading it returns, the first
\* one whose key is maximal
MaxKpPosition(rs) ==
    First({i \in 1..Len(rs) : \A j \in 1..Len(rs) : KpKey(rs[j]) <= KpKey(rs[i])})

\* f"Kp {max_kp.get('kpIndex', 'N/A')}" under `if storm.get("allKpIndex")`
KpIntensity(allKp) ==
    IF allKp = None \/ allKp = Some(<<>>) THEN "Unknown"
    ELSE LET max_kp == allKp[1][MaxKpPosition(allKp[1])]
         IN  IF max_kp = None THEN ToString(<<"Kp", "N/A">>)
             ELSE ToString(<<"Kp", max_kp[1]>>)

NormalizeStorm(storm) ==
    LET start == ParseRequired(storm.startTime)
    IN  IF start.exc # "none" THEN [exc |-> start.exc, event |-> None]
        ELSE [exc |-> "none",
              event |-> Some(SpaceEvent(storm.gstID, "GST", start.value[1],
                                        None, KpIntensity(storm.allKpIndex),
                                        Linked(storm.linkedEvents)))]

Normalize(type, record) ==
    CASE type = "FLR" -> NormalizeFlare(record)
      [] type = "CME" -> NormalizeCme(record)
      [] type = "GST" -> NormalizeStorm(record)

\* FetchLoop with a record that raises skipped instead
FetchLoopSkipBad(type, data) ==
    LET good == SelectSeq(data, LAMBDA r : Normalize(type, r).exc = "none")
    IN  [exc |-> "none",
         events |-> [i \in 1..Len(good) |-> Normalize(type, good[i]).event[1]]]

\* The `for record in data` loop of a fetch function: the events appended, or
\* the exception of the first record that raises (nothing is returned then).
FetchLoop(type, data) ==
    LET bad == {i \in 1..Len(data) : Normalize(type, data[i]).exc # "none"}
    IN  IF bad = {}
        THEN [exc |-> "none",
              events |-> [i \in 1..Len(data) |-> Normalize(type, data[i]).event[1]]]
        ELSE [exc |-> Normalize(type, data[First(bad)]).exc, events |-> None]

\* Fetch without raise_for_status: the body of an error response is used
FetchIgnoringStatus(type, response) ==
    IF response.status = "connection_error"
    THEN [exc |-> "RequestException", events |-> None]
    ELSE LET r == FetchLoop(type, response.data)
         IN  IF r.exc = "none" THEN [exc |-> "none", events |-> Some(r.events)]
             ELSE r

\* requests.get + raise_for_status + json + the loop
Fetch(type, response) ==
    IF response.status # "ok"
    THEN [exc |-> "RequestException", events |-> None]
    ELSE LET r == FetchLoop(type, response.data)
         IN  IF r.exc = "none" THEN [exc |-> "none", events |-> Some(r.events)]
             ELSE r


(***************************************************************************)
(* The cross-reference dictionary and the link resolution of each          *)
(* derivation.                                                             *)
(***************************************************************************)
Ids(events) == {events[i].event_id : i \in 1..Len(events)}

\* all_events with the first event of an id kept
all_events_first_wins(events) ==
    [id \in Ids(events) |->
        events[First({i \in 1..Len(events) : events[i].event_id = id})]]

\* {e.event_id: e for e in events}: a later event replaces an earlier one
\* that has the same id
all_events(events) ==
    [id \in Ids(events) |->
        events[Last({i \in 1..Len(events) : events[i].event_id = id})]]

\* IndexAll with the storms left out
IndexWithoutStorms(fl, cm, st) == all_events(fl \o cm)

\* the dictionary of create_timeline_chart, print_event_summary and
\* create_pairwise_flr_gst
IndexAll(fl, cm, st) == all_events(fl \o cm \o st)

\* the dictionary of create_pairwise_flr_cme
IndexFlrCme(fl, cm) == all_events(fl \o cm)

\* the dictionary of create_pairwise_cme_gst
IndexCmeGst(cm, st) == all_events(cm \o st)

\* Lookup that falls back to some event of the dictionary for a missing id
LookupWithFallback(index, id) ==
    IF id \in DOMAIN index THEN Some(index[id])
    ELSE IF DOMAIN index # {} THEN Some(index[CHOOSE k \in DOMAIN index : TRUE])
    ELSE None

\* `if linked_id in all_events: linked = all_events[linked_id]`
Lookup(index, id) == IF id \in DOMAIN index THEN Some(index[id]) ELSE None

\* TimelineTravelTime with the operands exchanged
TimelineTravelTimeSwapped(event, linked_event) ==
    event.start_time - linked_event.start_time

\* travel_time = linked_event.start_time - event.start_time, in hours
TimelineTravelTime(event, linked_event) ==
    linked_event.start_time - event.start_time

\* the event types create_timeline_chart connects to
TimelineTargets == {"GST", "CME"}

\* create_timeline_chart: the arrows drawn, each with its travel-time label
TimelineConnections(fl, cm, st) ==
    LET index == IndexAll(fl, cm, st)
        sources == fl \o cm
        arrow(event, linked_id) ==
            LET found == Lookup(index, linked_id)
            IN  IF found # None /\ found[1].event_type \in TimelineTargets
                THEN << [source |-> event, target |-> found[1],
                         hours |-> TimelineTravelTime(event, found[1])] >>
                ELSE <<>>
    IN  Flatten([i \in 1..Len(sources) |->
            Flatten([j \in 1..Len(sources[i].linked_events) |->
                arrow(sources[i], sources[i].linked_events[j])])])

\* SummaryDelta measured from the linked event back to the CME
SummaryDeltaBackwards(event, linked) == event.start_time - linked.start_time

\* delta = linked.start_time - event.start_time, in hours
SummaryDelta(event, linked) == linked.start_time - event.start_time

\* SummaryTravelTimes with the pairs of hours <= 0 left out
SummaryTravelTimesPositive(fl, cm, st) ==
    LET index == all_events(fl \o cm \o st)
        entry(event, linked_id) ==
            IF linked_id \in DOMAIN index /\ index[linked_id].event_type = "GST"
                 /\ index[linked_id].start_time > event.start_time
            THEN << [source |-> event, target |-> index[linked_id],
                     hours |-> index[linked_id].start_time - event.start_time] >>
            ELSE <<>>
    IN  Flatten([i \in 1..Len(cm) |->
            Flatten([j \in 1..Len(cm[i].linked_events) |->
                entry(cm[i], cm[i].linked_events[j])])])

\* print_event_summary: travel_times, each entry with the pair it was
\* appended for (the code keeps the hours only)
SummaryTravelTimes(fl, cm, st) ==
    LET index == IndexAll(fl, cm, st)
        entry(event, linked_id) ==
            LET found == Lookup(index, linked_id)
            IN  IF found # None /\ found[1].event_type = "GST"
                THEN << [source |-> event, target |-> found[1],
                         hours |-> SummaryDelta(event, found[1])] >>
                ELSE <<>>
    IN  Flatten([i \in 1..Len(cm) |->
            Flatten([j \in 1..Len(cm[i].linked_events) |->
                entry(cm[i], cm[i].linked_events[j])])])

\* create_pairwise_flr_cme: linked_pairs
FlrCmePairs(fl, cm) ==
    LET index == IndexFlrCme(fl, cm)
        pair(flare, linked_id) ==
            LET found == Lookup(index, linked_id)
            IN  IF found # None /\ found[1].event_type = "CME"
                THEN << [source |-> flare, target |-> found[1]] >>
                ELSE <<>>
    IN  Flatten([i \in 1..Len(fl) |->
            Flatten([j \in 1..Len(fl[i].linked_events) |->
                pair(fl[i], fl[i].linked_events[j])])])

\* create_pairwise_cme_gst: linked_pairs
CmeGstPairs(cm, st) ==
    LET index == IndexCmeGst(cm, st)
        pair(cme, linked_id) ==
            LET found == Lookup(index, linked_id)
            IN  IF found # None /\ found[1].event_type = "GST"
                THEN << [source |-> cme, target |-> found[1]] >>
                ELSE <<>>
    IN  Flatten([i \in 1..Len(cm) |->
            Flatten([j \in 1..Len(cm[i].linked_events) |->
                pair(cm[i], cm[i].linked_events[j])])])

\* create_pairwise_cme_gst: travel_times of the histogram (hours > 0 only)
CmeGstTravelTimes(pairs) ==
    Flatten([i \in 1..Len(pairs) |->
        LET hours == pairs[i].target.start_time - pairs[i].source.start_time
        IN  IF hours > 0 THEN <<hours>> ELSE <<>>])

\* create_pairwise_flr_gst: the flare->CME hops its loop follows, the links
\* of the flares that its index resolves to a CME
FlrGstHops(fl, cm, st) ==
    LET index == IndexAll(fl, cm, st)
        hop(flare, cme_id) ==
            LET found == Lookup(index, cme_id)
            IN  IF found # None /\ found[1].event_type = "CME"
                THEN << [source |-> flare, target |-> found[1]] >>
                ELSE <<>>
    IN  Flatten([i \in 1..Len(fl) |->
            Flatten([j \in 1..Len(fl[i].linked_events) |->
                hop(fl[i], fl[i].linked_events[j])])])

\* FullChains that also follows a link from the flare's CME to another CME
\* and takes the storms that one links to
FullChainsTransitive(fl, cm, st) ==
    LET index == all_events(fl \o cm \o st)
        is(id, type) == id \in DOMAIN index /\ index[id].event_type = type
        storms_of(i, j, cme) ==
            Flatten([k \in 1..Len(cme.linked_events) |->
                IF is(cme.linked_events[k], "GST")
                THEN << [flare |-> fl[i], cme |-> cme,
                         gst |-> index[cme.linked_events[k]],
                         path |-> <<i, j, k>>] >>
                ELSE <<>>])
        via(i, j, cme) ==
            Flatten([k \in 1..Len(cme.linked_events) |->
                IF is(cme.linked_events[k], "CME")
                THEN storms_of(i, j, index[cme.linked_events[k]])
                ELSE <<>>])
    IN  Flatten([i \in 1..Len(fl) |->
            Flatten([j \in 1..Len(fl[i].linked_events) |->
                IF is(fl[i].linked_events[j], "CME")
                THEN storms_of(i, j, index[fl[i].linked_events[j]])
                       \o via(i, j, index[fl[i].linked_events[j]])
                ELSE <<>>])])

\* FullChains with a (flare, CME, storm) triple appended only the first time
\* it is found
FullChainsDeduplicated(fl, cm, st) ==
    LET index == all_events(fl \o cm \o st)
        is(id, type) == id \in DOMAIN index /\ index[id].event_type = type
        storms_of(i, j, cme) ==
            Flatten([k \in 1..Len(cme.linked_events) |->
                IF is(cme.linked_events[k], "GST")
                THEN << [flare |-> fl[i], cme |-> cme,
                         gst |-> index[cme.linked_events[k]],
                         path |-> <<i, j, k>>] >>
                ELSE <<>>])
        found == Flatten([i \in 1..Len(fl) |->
                    Flatten([j \in 1..Len(fl[i].linked_events) |->
                        IF is(fl[i].linked_events[j], "CME")
                        THEN storms_of(i, j, index[fl[i].linked_events[j]])
                        ELSE <<>>])])
        seen(a) == \E b \in 1..(a - 1) :
                      /\ found[b].flare = found[a].flare
                      /\ found[b].cme = found[a].cme
                      /\ found[b].gst = found[a].gst
    IN  Flatten([a \in 1..Len(found) |->
            IF seen(a) THEN <<>> ELSE <<found[a]>>])

\* create_pairwise_flr_gst: full_chains.  path = the loop positions at the
\* append: flare index, position of cme_id in the flare's links, position of
\* gst_id in the CME's links (the code keeps the triple only).
FullChains(fl, cm, st) ==
    LET index == IndexAll(fl, cm, st)
        storms_of(i, j, cme) ==
            Flatten([k \in 1..Len(cme.linked_events) |->
                LET gst == Lookup(index, cme.linked_events[k])
                IN  IF gst # None /\ gst[1].event_type = "GST"
                    THEN << [flare |-> fl[i], cme |-> cme, gst |-> gst[1],
                             path |-> <<i, j, k>>] >>
                    ELSE <<>>])
        cmes_of(i) ==
            Flatten([j \in 1..Len(fl[i].linked_events) |->
                LET cme == Lookup(index, fl[i].linked_events[j])
                IN  IF cme # None /\ cme[1].event_type = "CME"
                    THEN storms_of(i, j, cme[1])
                    ELSE <<>>])
    IN  Flatten([i \in 1..Len(fl) |-> cmes_of(i)])


(***************************************************************************)
(* Parsing of the intensity texts by the charts.                           *)
(***************************************************************************)
\* the class texts of the model as re.match(r'([ABCMX])(\d+\.?\d*)') splits
\* them: group(1) and float(group(2)); a text outside the table has no match
FlareClassMatch == "X1.0" :> [letter |-> "X", number |-> 1]

class_values == [A |-> 1, B |-> 2, C |-> 3, M |-> 4, X |-> 5]

\* parse_flare_class: (letter, value), or TypeError where re.match is handed
\* a None
parse_flare_class(intensity) ==
    IF intensity = PyNone
    THEN [exc |-> "TypeError", letter |-> "Unknown", value |-> 0]
    ELSE IF intensity \in DOMAIN FlareClassMatch
         THEN LET m == FlareClassMatch[intensity]
              IN  [exc |-> "none", letter |-> m.letter,
                   value |-> class_values[m.letter] * 10 + m.number]
         ELSE [exc |-> "none", letter |-> "Unknown", value |-> 0]

\* the Kp values a storm intensity of the model can carry
KpValues == 0..9

\* parse_kp_index: float(group(1)) of re.search(r'Kp\s*(\d+\.?\d*)'), and 0
\* for a text without a match ("Unknown", "Kp N/A")
parse_kp_index(intensity) ==
    IF \E v \in KpValues : intensity = ToString(<<"Kp", v>>)
    THEN CHOOSE v \in KpValues : intensity = ToString(<<"Kp", v>>)
    ELSE 0

(***************************************************************************)
(* Aggregation.  A mean is kept as the fraction sum / len it is computed   *)
(* from.                                                                   *)
(***************************************************************************)
Hours(entries) == [i \in 1..Len(entries) |-> entries[i].hours]

MaxOf(s) == CHOOSE m \in {s[i] : i \in 1..Len(s)} : \A i \in 1..Len(s) : s[i] <= m
MinOf(s) == CHOOSE m \in {s[i] : i \in 1..Len(s)} : \A i \in 1..Len(s) : m <= s[i]

\* Average without the `if travel_times:` guard
AverageUnguarded(hours) == Some([sum |-> SumSeq(hours), len |-> Len(hours)])

\* `if travel_times: avg_time = sum(travel_times) / len(travel_times)`
Average(hours) ==
    IF hours # <<>> THEN Some([sum |-> SumSeq(hours), len |-> Len(hours)])
    ELSE None

\* create_gst_chart: the statistics panel (`if storms:` with its else)
GstStatistics(st) ==
    LET kp_indices == [i \in 1..Len(st) |-> parse_kp_index(st[i].intensity)]
        times == [i \in 1..Len(st) |-> st[i].start_time]
    IN  IF st # <<>>
        THEN [text |-> "statistics", total |-> Len(st),
              kp |-> Some([maximum |-> MaxOf(kp_indices),
                           minimum |-> MinOf(kp_indices),
                           average |-> [sum |-> SumSeq(kp_indices),
                                        len |-> Len(kp_indices)]]),
              dates |-> Some([first |-> MinOf(times), last |-> MaxOf(times)])]
        ELSE [text |-> "no_storms", total |-> 0, kp |-> None, dates |-> None]

(***************************************************************************)
(* Response bodies the three endpoints may return (main specification).    *)
(***************************************************************************)
RawFlare(id, begin, end, class, links) ==
    [flrID |-> id, beginTime |-> begin, endTime |-> end, classType |-> class,
     linkedEvents |-> links]

RawCme(id, start, analyses, links) ==
    [activityID |-> id, startTime |-> start, cmeAnalyses |-> analyses,
     linkedEvents |-> links]

RawStorm(id, start, kp, links) ==
    [gstID |-> id, startTime |-> start, allKpIndex |-> kp,
     linkedEvents |-> links]

\* a required timestamp field: well formed, missing, or malformed
RawStarts(h) == {Some(Timestamp(h, "Z")), None, Some(Timestamp(h, "garbage"))}

\* classType: a class text, a JSON null, or the key missing
RawClasses == {Some("X1.0"), Some(PyNone), None}

RawFlares ==
    {RawFlare("F1", b, e, Some("X1.0"), l) :
        b \in RawStarts(0),
        e \in {None, Some(Timestamp(1, "Z"))},
        l \in {None, Some(<<Some("C1"), None>>)}}
    \cup {RawFlare("F1", Some(Timestamp(0, "Z")), None, c, None) : c \in RawClasses}

RawCmes ==
    {RawCme("C1", b, Some(<<[type |-> Some("S"), speed |-> Some(800)]>>), l) :
        b \in RawStarts(2),
        l \in {Some(<<>>), Some(<<Some("G1")>>)}}

RawStorms ==
    {RawStorm("G1", b, Some(<<Some(7)>>), None) : b \in RawStarts(38)}

Bodies(pool) == UNION {[1..n -> pool] : n \in 0..MaxRecords}

Responses(pool) ==
    {[status |-> "ok", data |-> d] : d \in Bodies(pool)}
    \cup {[status |-> s, data |-> <<>>] : s \in {"connection_error", "http_error"}}

(***************************************************************************)
(* The wake-word assistant as its constructors leave it                    *)
(***************************************************************************)
Threads == 1..MaxThreads

Listeners == 1..MaxListeners

\* WakeWordDetector.__init__
DetectorInit(callback) ==
    /\ on_wake_word = callback
    /\ running = FALSE
    /\ paused = FALSE
    /\ lock = None
    /\ thread = None
    /\ audio = FALSE
    /\ stream = FALSE
    /\ model = FALSE
    /\ detectors = [t \in Threads |-> "none"]

\* SpeechRecognizer.__init__
RecognizerInit ==
    /\ listeners = [l \in Listeners |-> "none"]
    /\ callbacks = [l \in Listeners |-> <<>>]
    /\ is_listening = FALSE

\* WakeWordAssistantApp.__init__ without the two _setup calls
WidgetsInit ==
    /\ is_running = FALSE
    /\ button = "normal"
    /\ status = "Stopped"
    /\ scheduled = <<>>
    /\ gui = "idle"
    /\ starter = "none"
    /\ closed = FALSE

\* WakeWordAssistantApp.__init__, up to root.mainloop()
AppInit ==
    /\ WidgetsInit
    /\ DetectorInit(Some("_on_wake_word_detected"))
    /\ RecognizerInit

(***************************************************************************)
(* main()                                                                  *)
(***************************************************************************)
MainInit ==
    /\ pc = "fetch_flr"
    /\ raw = [t \in Types |-> None]
    /\ requests = [t \in Types |-> 0]
    /\ flares = <<>>
    /\ cmes = <<>>
    /\ storms = <<>>
    /\ exc = "none"
    /\ printed = <<>>
    /\ charts = {}
    /\ travel_times = <<>>
    /\ connection_lines = <<>>
    /\ flr_cme_pairs = <<>>
    /\ cme_gst_pairs = <<>>
    /\ cme_gst_hours = <<>>
    /\ full_chains = <<>>
    /\ counts = None
    /\ avg_time = None
    /\ stats_text = None

Init ==
    /\ MainInit
    /\ AppInit

derived == <<travel_times, connection_lines, flr_cme_pairs, cme_gst_pairs,
             cme_gst_hours, full_chains>>

reported == <<counts, avg_time, stats_text>>

\* One `x = fetch_...(start_str, end_str)` statement of main with the two
\* prints around it, and main's except clauses when the call raises.
MainFetch(type, response, next) ==
    LET r == Fetch(type, response)
    IN  /\ requests' = [requests EXCEPT ![type] = @ + 1]
        /\ raw' = [raw EXCEPT ![type] = Some(response)]
        /\ exc' = r.exc
        /\ printed' = printed \o
              (CASE r.exc = "none" -> <<"fetching", "found">>
                 [] r.exc = "RequestException" ->
                      <<"fetching", "error_fetching_data", "check_connection">>
                 [] OTHER -> <<"fetching", "unexpected_error">>)
        /\ pc' = (CASE r.exc = "none" -> next
                    [] r.exc = "RequestException" -> "returned"
                    [] OTHER -> "raised")
        /\ UNCHANGED <<charts, derived, reported, assistant>>

fetch_solar_flares ==
    /\ pc = "fetch_flr"
    /\ \E response \in Responses(RawFlares) :
          /\ MainFetch("FLR", response, "fetch_cme")
          /\ flares' = IF Fetch("FLR", response).exc = "none"
                       THEN Fetch("FLR", response).events[1] ELSE flares
    /\ UNCHANGED <<cmes, storms>>

fetch_cme ==
    /\ pc = "fetch_cme"
    /\ \E response \in Responses(RawCmes) :
          /\ MainFetch("CME", response, "fetch_gst")
          /\ cmes' = IF Fetch("CME", response).exc = "none"
                     THEN Fetch("CME", response).events[1] ELSE cmes
    /\ UNCHANGED <<flares, storms>>

fetch_geomagnetic_storms ==
    /\ pc = "fetch_gst"
    /\ \E response \in Responses(RawStorms) :
          /\ MainFetch("GST", response, "summary")
          /\ storms' = IF Fetch("GST", response).exc = "none"
                       THEN Fetch("GST", response).events[1] ELSE storms
    /\ UNCHANGED <<flares, cmes>>

inputs == <<raw, requests, flares, cmes, storms, exc>>

EventsOf(type) ==
    CASE type = "FLR" -> flares [] type = "CME" -> cmes [] type = "GST" -> storms

\* print_event_summary(flares, cmes, storms), then main's
\* `if flares or cmes or storms:` with the print of either branch
print_event_summary ==
    /\ pc = "summary"
    /\ travel_times' = SummaryTravelTimes(flares, cmes, storms)
    /\ printed' = printed \o <<"summary">>
          \o (IF travel_times' # <<>> THEN <<"average_travel_time">> ELSE <<>>)
          \o (IF flares # <<>> \/ cmes # <<>> \/ storms # <<>>
              THEN <<"generating_charts">> ELSE <<"no_events_found">>)
    /\ counts' = Some([t \in Types |-> Len(EventsOf(t))])
    /\ avg_time' = Average(Hours(travel_times'))
    /\ pc' = IF flares # <<>> \/ cmes # <<>> \/ storms # <<>>
             THEN "timeline" ELSE "done"
    /\ UNCHANGED <<inputs, charts, connection_lines, flr_cme_pairs,
                   cme_gst_pairs, cme_gst_hours, full_chains, stats_text,
                   assistant>>

create_timeline_chart ==
    /\ pc = "timeline"
    /\ connection_lines' = TimelineConnections(flares, cmes, storms)
    /\ charts' = charts \cup {"space_weather_timeline.png"}
    /\ pc' = "flare_chart"
    /\ UNCHANGED <<inputs, printed, travel_times, flr_cme_pairs,
                   cme_gst_pairs, cme_gst_hours, full_chains, reported,
                   assistant>>

\* `if flares: create_flare_chart(...)`.  The chart parses every flare's
\* class before it draws or saves anything; a TypeError of the parse leaves
\* the function and is re-raised by main after "Unexpected error".
create_flare_chart ==
    /\ pc = "flare_chart"
    /\ LET failed == \E i \in 1..Len(flares) :
                         parse_flare_class(flares[i].intensity).exc # "none"
       IN  IF failed
           THEN /\ exc' = "TypeError"
                /\ printed' = printed \o <<"unexpected_error">>
                /\ pc' = "raised"
                /\ UNCHANGED charts
           ELSE /\ charts' = IF flares # <<>>
                             THEN charts \cup {"chart_flares.png"} ELSE charts
                /\ pc' = "cme_chart"
                /\ UNCHANGED <<exc, printed>>
    /\ UNCHANGED <<raw, requests, flares, cmes, storms, derived, reported,
                   assistant>>

\* `if cmes: create_cme_chart(...)`
create_cme_chart ==
    /\ pc = "cme_chart"
    /\ charts' = IF cmes # <<>> THEN charts \cup {"chart_cme.png"} ELSE charts
    /\ pc' = "gst_chart"
    /\ UNCHANGED <<inputs, printed, derived, reported, assistant>>

\* `if storms: create_gst_chart(...)`
create_gst_chart ==
    /\ pc = "gst_chart"
    /\ IF storms # <<>>
       THEN /\ stats_text' = Some(GstStatistics(storms))
            /\ charts' = charts \cup {"chart_gst.png"}
       ELSE UNCHANGED <<stats_text, charts>>
    /\ pc' = "flr_cme"
    /\ UNCHANGED <<inputs, printed, derived, counts, avg_time, assistant>>

\* `if flares and cmes: create_pairwise_flr_cme(...)`
create_pairwise_flr_cme ==
    /\ pc = "flr_cme"
    /\ IF flares # <<>> /\ cmes # <<>>
       THEN /\ flr_cme_pairs' = FlrCmePairs(flares, cmes)
            /\ charts' = charts \cup {"chart_flr_vs_cme.png"}
       ELSE UNCHANGED <<flr_cme_pairs, charts>>
    /\ pc' = "cme_gst"
    /\ UNCHANGED <<inputs, printed, travel_times, connection_lines,
                   cme_gst_pairs, cme_gst_hours, full_chains, reported,
                   assistant>>

\* `if cmes and storms: create_pairwise_cme_gst(...)`
create_pairwise_cme_gst ==
    /\ pc = "cme_gst"
    /\ IF cmes # <<>> /\ storms # <<>>
       THEN /\ cme_gst_pairs' = CmeGstPairs(cmes, storms)
            /\ cme_gst_hours' = CmeGstTravelTimes(cme_gst_pairs')
            /\ charts' = charts \cup {"chart_cme_vs_gst.png"}
       ELSE UNCHANGED <<cme_gst_pairs, cme_gst_hours, charts>>
    /\ pc' = "flr_gst"
    /\ UNCHANGED <<inputs, printed, travel_times, connection_lines,
                   flr_cme_pairs, full_chains, reported, assistant>>

\* `if flares and storms: create_pairwise_flr_gst(...)`, then the closing
\* "All charts generated successfully!"
create_pairwise_flr_gst ==
    /\ pc = "flr_gst"
    /\ IF flares # <<>> /\ storms # <<>>
       THEN /\ full_chains' = FullChains(flares, cmes, storms)
            /\ charts' = charts \cup {"chart_flr_vs_gst.png"}
       ELSE UNCHANGED <<full_chains, charts>>
    /\ printed' = printed \o <<"all_charts_generated">>
    /\ pc' = "done"
    /\ UNCHANGED <<inputs, travel_times, connection_lines, flr_cme_pairs,
                   cme_gst_pairs, cme_gst_hours, reported, assistant>>

Derive ==
    \/ print_event_summary
    \/ create_timeline_chart
    \/ create_flare_chart
    \/ create_cme_chart
    \/ create_gst_chart
    \/ create_pairwise_flr_cme
    \/ create_pairwise_cme_gst
    \/ create_pairwise_flr_gst

Next ==
    \/ fetch_solar_flares
    \/ fetch_cme
    \/ fetch_geomagnetic_storms
    \/ print_event_summary
    \/ create_timeline_chart
    \/ create_flare_chart
    \/ create_cme_chart
    \/ create_gst_chart
    \/ create_pairwise_flr_cme
    \/ create_pairwise_cme_gst
    \/ create_pairwise_flr_gst

Spec == Init /\ [][Next]_vars


(***************************************************************************)
(* Resolver specification: main() after three successful fetches of bodies *)
(* whose ids collide across and within types and whose links repeat,       *)
(* dangle, and point at every type.                                        *)
(***************************************************************************)
FlrIds == {"F1", "F2"}
CmeIds == {"C1", "F1"}
GstIds == {"G1", "C1", "F1"}
LinkIds == {"F1", "C1", "G1"}

FlrTimes == {0}
CmeTimes == {2}
GstTimes == {0, 2, 38}

Min(a, b) == IF a <= b THEN a ELSE b

LinkSeqs(n) == UNION {[1..k -> LinkIds] : k \in 0..n}

RawLinks(l) == IF l = <<>> THEN None ELSE Some([i \in 1..Len(l) |-> Some(l[i])])

RawLinkCount(record) ==
    IF record.linkedEvents = None THEN 0 ELSE Len(record.linkedEvents[1])

RawTotalLinks(data) == SumSeq([i \in 1..Len(data) |-> RawLinkCount(data[i])])

ResolverRawFlares(n) ==
    {RawFlare(id, Some(Timestamp(t, "Z")), None, Some("X1.0"), RawLinks(l)) :
        id \in FlrIds, t \in FlrTimes, l \in LinkSeqs(n)}

ResolverRawCmes(n) ==
    {RawCme(id, Some(Timestamp(t, "Z")),
            Some(<<[type |-> Some("S"), speed |-> Some(800)]>>), RawLinks(l)) :
        id \in CmeIds, t \in CmeTimes, l \in LinkSeqs(n)}

ResolverRawStorms ==
    {RawStorm(id, Some(Timestamp(t, "Z")), Some(<<Some(7)>>), None) :
        id \in GstIds, t \in GstTimes}

\* bodies of at most `max` records of pool(n) that carry at most `budget`
\* link ids together, each record at most MaxLinks
ResolverBodies(pool(_), max, budget) ==
    {d \in UNION {[1..n -> pool(Min(MaxLinks, budget))] : n \in 0..max} :
        RawTotalLinks(d) <= budget}

\* main() at the call of print_event_summary, the three fetches having
\* returned the events of the bodies fb, cb, sb
AfterFetch(fb, cb, sb) ==
    /\ pc = "summary"
    /\ raw = [t \in Types |->
                Some([status |-> "ok",
                      data |-> CASE t = "FLR" -> fb [] t = "CME" -> cb
                                 [] t = "GST" -> sb])]
    /\ requests = [t \in Types |-> 1]
    /\ flares = Fetch("FLR", raw["FLR"][1]).events[1]
    /\ cmes = Fetch("CME", raw["CME"][1]).events[1]
    /\ storms = Fetch("GST", raw["GST"][1]).events[1]
    /\ exc = "none"
    /\ printed = <<"fetching", "found", "fetching", "found",
                   "fetching", "found">>
    /\ charts = {}
    /\ travel_times = <<>>
    /\ connection_lines = <<>>
    /\ flr_cme_pairs = <<>>
    /\ cme_gst_pairs = <<>>
    /\ cme_gst_hours = <<>>
    /\ full_chains = <<>>
    /\ counts = None
    /\ avg_time = None
    /\ stats_text = None
    /\ AppInit

InitResolve ==
    \E cb \in ResolverBodies(ResolverRawCmes, Min(MaxCmes, MaxEvents),
                             MaxLinksTotal) :
    \E fb \in ResolverBodies(ResolverRawFlares, Min(MaxFlares, MaxEvents - Len(cb)),
                             MaxLinksTotal - RawTotalLinks(cb)) :
    \E sb \in UNION {[1..n -> ResolverRawStorms] :
                        n \in 0..Min(MaxStorms, MaxEvents - Len(fb) - Len(cb))} :
        AfterFetch(fb, cb, sb)

SpecResolve == InitResolve /\ [][Derive]_vars


(***************************************************************************)
(* Cyclic-links specification: main() after three successful fetches of a  *)
(* flare F1, a CME C1, an optional CME C2 and an optional storm G1 whose    *)
(* links may lead back (C1 to F1, an event to itself, C1 and C2 to each    *)
(* other).  main() runs each statement to completion and goes on to the    *)
(* next one, hence the fairness condition.                                 *)
(***************************************************************************)
\* links of the flare F1: none, to the CME, to itself
CyclicFlareLinks == {<<>>, <<"C1">>, <<"F1">>}

\* links of the CME C1: to the storm, back to the flare, to itself, to the
\* other CME, and each of the last three followed by the storm
CyclicCmeLinks ==
    {<<"G1">>, <<"F1">>, <<"C1">>, <<"C2">>,
     <<"F1", "G1">>, <<"C1", "G1">>, <<"C2", "G1">>}

\* links of the CME C2: back to C1, to the storm
CyclicOtherLinks == {<<"C1">>, <<"G1">>}

CyclicFlares ==
    {<<RawFlare("F1", Some(Timestamp(0, "Z")), None, Some("X1.0"), RawLinks(l))>> :
        l \in CyclicFlareLinks}

CyclicCmes ==
    LET cme(id, l) ==
            RawCme(id, Some(Timestamp(2, "Z")),
                   Some(<<[type |-> Some("S"), speed |-> Some(800)]>>), RawLinks(l))
    IN  {<<cme("C1", l)>> : l \in CyclicCmeLinks}
        \cup {<<cme("C1", l), cme("C2", m)>> :
                 l \in CyclicCmeLinks, m \in CyclicOtherLinks}

CyclicStorms ==
    {<<>>, <<RawStorm("G1", Some(Timestamp(38, "Z")), Some(<<Some(7)>>), None)>>}

InitCyclic ==
    \E fb \in CyclicFlares : \E cb \in CyclicCmes : \E sb \in CyclicStorms :
        AfterFetch(fb, cb, sb)

SpecCyclic == InitCyclic /\ [][Derive]_vars /\ WF_vars(Derive)


(***************************************************************************)
(* Normalizer specification: main() after three successful fetches, the    *)
(* body of one endpoint drawn from records that vary in the optional       *)
(* fields (end time, analyses, Kp readings, linked events), the other two  *)
(* bodies being the single record of the end-to-end scenario.              *)
(***************************************************************************)
\* linkedEvents: missing, empty, a repeated id, and an id of no event next to
\* an entry without activityID and an id of the storm
NormLinks ==
    {None, Some(<<>>), Some(<<Some("C1"), Some("C1")>>),
     Some(<<Some("G9"), None, Some("G1")>>)}

\* endTime of a flare that begins at hour 2: missing, later, earlier
NormEnds == {None, Some(Timestamp(3, "Z")), Some(Timestamp(1, "Z"))}

Analysis(type, speed) == [type |-> type, speed |-> speed]

\* cmeAnalyses: missing, empty, one entry, two entries of which either is the
\* faster one, an entry without type and speed
NormAnalyses ==
    {None, Some(<<>>),
     Some(<<Analysis(Some("S"), Some(800))>>),
     Some(<<Analysis(Some("S"), Some(800)), Analysis(Some("C"), Some(1200))>>),
     Some(<<Analysis(Some("C"), Some(1200)), Analysis(Some("S"), Some(800))>>),
     Some(<<Analysis(None, None), Analysis(Some("S"), Some(800))>>)}

\* allKpIndex: missing, empty, one reading, several readings with the maximum
\* first, last or repeated, readings without kpIndex
NormKp ==
    {None, Some(<<>>), Some(<<Some(5)>>), Some(<<Some(7), Some(5)>>),
     Some(<<Some(5), Some(7), Some(7)>>), Some(<<None>>),
     Some(<<None, Some(0)>>), Some(<<Some(0), None>>)}

NormFlares ==
    {RawFlare("F1", Some(Timestamp(2, "Z")), e, Some("X1.0"), l) :
        e \in NormEnds, l \in NormLinks}

NormCmes ==
    {RawCme("C1", Some(Timestamp(2, "Z")), a, l) :
        a \in NormAnalyses, l \in NormLinks}

NormStorms ==
    {RawStorm("G1", Some(Timestamp(38, "Z")), k, l) :
        k \in NormKp, l \in {None, Some(<<Some("C1"), Some("C1")>>)}}

NormPool(type) ==
    CASE type = "FLR" -> NormFlares
      [] type = "CME" -> NormCmes
      [] type = "GST" -> NormStorms

\* the record of each type in the end-to-end scenario
ScenarioBody(type) ==
    CASE type = "FLR" ->
            <<RawFlare("F1", Some(Timestamp(0, "Z")), None, Some("X1.0"),
                       Some(<<Some("C1")>>))>>
      [] type = "CME" ->
            <<RawCme("C1", Some(Timestamp(2, "Z")),
                     Some(<<Analysis(Some("S"), Some(800))>>),
                     Some(<<Some("G1")>>))>>
      [] type = "GST" ->
            <<RawStorm("G1", Some(Timestamp(38, "Z")), Some(<<Some(7)>>), None)>>

InitNormalize ==
    \E t \in Types : \E body \in Bodies(NormPool(t)) :
        LET b(u) == IF u = t THEN body ELSE ScenarioBody(u)
        IN  AfterFetch(b("FLR"), b("CME"), b("GST"))

SpecNormalize == InitNormalize /\ [][Derive]_vars


(***************************************************************************)
(* WakeWordDetector                                                        *)
(***************************************************************************)
\* the lowest slot without a thread: threading.Thread(...) of start()
FreeThread == CHOOSE t \in Threads :
                 /\ detectors[t] = "none"
                 /\ \A u \in Threads : detectors[u] = "none" => t <= u

\* what _download_models, _init_audio and _init_model can do: each may raise
StartOutcomes == {"started", "download_failed", "audio_failed", "model_failed"}

\* WakeWordDetector.start(): returns at once when _running is set; otherwise
\* the three initialisations in order, then _running and the new thread.  An
\* initialisation that raises leaves what the earlier ones assigned.
start(outcome) ==
    IF running
    THEN UNCHANGED detector
    ELSE /\ audio' = (audio \/ outcome # "download_failed")
         /\ stream' = (stream \/ outcome \in {"model_failed", "started"})
         /\ model' = (model \/ outcome = "started")
         /\ running' = (outcome = "started")
         /\ thread' = IF outcome = "started" THEN Some(FreeThread) ELSE thread
         /\ detectors' = IF outcome = "started"
                         THEN [detectors EXCEPT ![FreeThread] = "while"]
                         ELSE detectors
         /\ UNCHANGED <<on_wake_word, paused, lock>>

\* start() can be followed here: it raises, or a thread slot is left for it
CanStart(outcome) ==
    running \/ outcome # "started" \/ \E t \in Threads : detectors[t] = "none"

\* WakeWordDetector.stop() up to the join: `self._running = False`
stop ==
    /\ running' = FALSE
    /\ UNCHANGED <<on_wake_word, paused, lock, thread, audio, stream, model,
                   detectors>>

\* The rest of stop(): join(timeout=2.0) has returned, because the thread
\* ended or because the two seconds passed, and the stream and PyAudio are
\* closed and forgotten.
join ==
    /\ thread' = None
    /\ stream' = FALSE
    /\ audio' = FALSE
    /\ UNCHANGED <<on_wake_word, running, paused, lock, model, detectors>>

\* WakeWordDetector.pause(): the body of `with self._lock:`
pause ==
    /\ lock = None
    /\ paused' = TRUE
    /\ UNCHANGED <<on_wake_word, running, lock, thread, audio, stream, model,
                   detectors>>

\* a resume() that takes the lock and leaves the flag as it is
resume_keeps_paused ==
    /\ lock = None
    /\ UNCHANGED detector

\* WakeWordDetector.resume(): the body of `with self._lock:`
resume ==
    /\ lock = None
    /\ paused' = FALSE
    /\ UNCHANGED <<on_wake_word, running, lock, thread, audio, stream, model,
                   detectors>>

\* _detection_loop: `while self._running:`; the thread ends when it is false
detection_loop_while(t) ==
    /\ ~closed
    /\ detectors[t] = "while"
    /\ detectors' = [detectors EXCEPT ![t] = IF running THEN "acquire" ELSE "none"]
    /\ UNCHANGED <<on_wake_word, running, paused, lock, thread, audio, stream,
                   model>>
    /\ UNCHANGED <<weather, app, recognizer>>

\* _detection_loop: `with self._lock:` entered
detection_loop_acquire(t) ==
    /\ ~closed
    /\ detectors[t] = "acquire"
    /\ lock = None
    /\ lock' = Some(t)
    /\ detectors' = [detectors EXCEPT ![t] = "locked"]
    /\ UNCHANGED <<on_wake_word, running, paused, thread, audio, stream, model>>
    /\ UNCHANGED <<weather, app, recognizer>>

\* _detection_loop: `if self._paused: continue` and the end of the with block
detection_loop_paused(t) ==
    /\ ~closed
    /\ detectors[t] = "locked"
    /\ lock' = None
    /\ detectors' = [detectors EXCEPT ![t] = IF paused THEN "while" ELSE "read"]
    /\ UNCHANGED <<on_wake_word, running, paused, thread, audio, stream, model>>
    /\ UNCHANGED <<weather, app, recognizer>>

\* wake words that were detected and whose command capture has not ended
Outstanding ==
    Cardinality({t \in Threads : detectors[t] = "callback"})
    + Cardinality({i \in 1..Len(scheduled) : scheduled[i] = "_handle_wake_word"})
    + (IF gui \in {"pause", "listen_for_command"} THEN 1 ELSE 0)
    + Cardinality({l \in Listeners : listeners[l] # "none"})

\* _detection_loop: self._stream.read, predict and the threshold test.  With
\* _stream None the read raises, the except clause catches it and the loop
\* goes on; otherwise the chunk holds the wake word or it does not.  The
\* wake word is said at most MaxListeners times before a capture has ended.
detection_loop_read(t) ==
    /\ ~closed
    /\ detectors[t] = "read"
    /\ \E detected \in IF Outstanding < MaxListeners THEN BOOLEAN ELSE {FALSE} :
          detectors' = [detectors EXCEPT ![t] =
                          IF stream /\ detected THEN "callback" ELSE "while"]
    /\ UNCHANGED <<on_wake_word, running, paused, lock, thread, audio, stream,
                   model>>
    /\ UNCHANGED <<weather, app, recognizer>>

\* root.after(0, callback) called from any thread
after(callback) ==
    /\ Len(scheduled) < MaxQueue
    /\ scheduled' = Append(scheduled, callback)

\* _detection_loop: self._model.reset() and `if self.on_wake_word:` with the
\* call, which is _on_wake_word_detected when the app built the detector
detection_loop_callback(t) ==
    /\ ~closed
    /\ detectors[t] = "callback"
    /\ IF on_wake_word # None
       THEN after("_handle_wake_word")
       ELSE UNCHANGED scheduled
    /\ detectors' = [detectors EXCEPT ![t] = "while"]
    /\ UNCHANGED <<on_wake_word, running, paused, lock, thread, audio, stream,
                   model>>
    /\ UNCHANGED <<weather, recognizer>>
    /\ UNCHANGED <<is_running, button, status, gui, starter, closed>>

\* one step of a detection thread
detection_loop ==
    \E t \in Threads :
        \/ detection_loop_while(t)
        \/ detection_loop_acquire(t)
        \/ detection_loop_paused(t)
        \/ detection_loop_read(t)
        \/ detection_loop_callback(t)

(***************************************************************************)
(* SpeechRecognizer                                                        *)
(***************************************************************************)
FreeListener == CHOOSE l \in Listeners :
                   /\ listeners[l] = "none"
                   /\ \A m \in Listeners : listeners[m] = "none" => l <= m

\* listen_for_command(): a new daemon thread running _listen_thread
listen_for_command ==
    /\ \E l \in Listeners : listeners[l] = "none"
    /\ listeners' = [listeners EXCEPT ![FreeListener] = "start"]
    /\ callbacks' = [callbacks EXCEPT ![FreeListener] = <<>>]
    /\ UNCHANGED is_listening

\* how recognizer.listen and recognize_google can end: with a text, or with
\* the exception of one of the four except clauses
ListenOutcomes == {"text", "WaitTimeoutError", "UnknownValueError",
                   "RequestError", "Exception"}

\* _listen_thread up to the try: _is_listening and on_listening_start, which
\* is the app's _on_listening_start
listen_thread_start(l) ==
    /\ ~closed
    /\ listeners[l] = "start"
    /\ is_listening' = TRUE
    /\ after("_log")
    /\ callbacks' = [callbacks EXCEPT ![l] = Append(@, "on_listening_start")]
    /\ listeners' = [listeners EXCEPT ![l] = "try"]
    /\ UNCHANGED <<weather, detector>>
    /\ UNCHANGED <<is_running, button, status, gui, starter, closed>>

\* the callback of the try block or of the except clause that is taken
ListenCallback(outcome) == IF outcome = "text" THEN "on_result" ELSE "on_error"

\* _listen_thread: the try block and its except clauses.  on_result is the
\* app's _on_command_recognized, on_error its _on_recognition_error.
listen_thread_try(l) ==
    /\ ~closed
    /\ listeners[l] = "try"
    /\ \E outcome \in ListenOutcomes :
          /\ after(IF outcome = "text" THEN "_process_command" ELSE "_log")
          /\ callbacks' = [callbacks EXCEPT ![l] = Append(@, ListenCallback(outcome))]
    /\ listeners' = [listeners EXCEPT ![l] = "finally"]
    /\ UNCHANGED <<weather, detector, is_listening>>
    /\ UNCHANGED <<is_running, button, status, gui, starter, closed>>

\* the end of the capture reported at the end of the try block instead of
\* in a finally clause: after a result only
listen_thread_finally_after_result(l) ==
    /\ ~closed
    /\ listeners[l] = "finally"
    /\ is_listening' = FALSE
    /\ IF callbacks[l][2] = "on_result"
       THEN after("_resume_detection")
       ELSE UNCHANGED scheduled
    /\ callbacks' = [callbacks EXCEPT ![l] = <<>>]
    /\ listeners' = [listeners EXCEPT ![l] = "none"]
    /\ UNCHANGED <<weather, detector>>
    /\ UNCHANGED <<is_running, button, status, gui, starter, closed>>

\* _listen_thread: the finally clause, with which the thread ends.
\* on_listening_end is the app's _on_listening_end.
listen_thread_finally(l) ==
    /\ ~closed
    /\ listeners[l] = "finally"
    /\ is_listening' = FALSE
    /\ after("_resume_detection")
    /\ callbacks' = [callbacks EXCEPT ![l] = <<>>]
    /\ listeners' = [listeners EXCEPT ![l] = "none"]
    /\ UNCHANGED <<weather, detector>>
    /\ UNCHANGED <<is_running, button, status, gui, starter, closed>>

\* one step of a capture thread
listen_thread ==
    \E l \in Listeners :
        \/ listen_thread_start(l)
        \/ listen_thread_try(l)
        \/ listen_thread_finally(l)

(***************************************************************************)
(* WakeWordAssistantApp                                                    *)
(***************************************************************************)
\* the Tk main thread runs the callback that was scheduled first
Dispatch(callback) ==
    /\ ~closed
    /\ gui = "idle"
    /\ scheduled # <<>>
    /\ Head(scheduled) = callback
    /\ scheduled' = Tail(scheduled)

\* _start_listening: the button is disabled and the thread of the nested
\* start() is started
start_listening ==
    /\ button' = "disabled"
    /\ starter' = "start"
    /\ UNCHANGED <<is_running, status, scheduled, gui, closed>>
    /\ UNCHANGED detector

\* _stop_listening up to the join inside self._detector.stop()
stop_listening ==
    /\ stop
    /\ gui' = "join"
    /\ UNCHANGED <<is_running, button, status, scheduled, starter, closed>>

\* a click on start_button: _toggle_listening
toggle_listening ==
    /\ ~closed
    /\ gui = "idle"
    /\ button = "normal"
    /\ IF is_running THEN stop_listening ELSE start_listening
    /\ UNCHANGED <<weather, recognizer>>

\* _stop_listening from the return of the join: the rest of stop(), then
\* _is_running and the widgets
stop_listening_join ==
    /\ ~closed
    /\ gui = "join"
    /\ join
    /\ is_running' = FALSE
    /\ status' = "Stopped"
    /\ gui' = "idle"
    /\ UNCHANGED <<button, scheduled, starter, closed>>
    /\ UNCHANGED <<weather, recognizer>>

\* the nested start() of _start_listening: self._detector.start() and, when
\* it raises, the two callbacks of the except clause
start_thread ==
    /\ ~closed
    /\ starter = "start"
    /\ \E outcome \in StartOutcomes :
          /\ CanStart(outcome)
          /\ start(outcome)
          /\ IF running \/ outcome = "started"
             THEN /\ starter' = "started"
                  /\ UNCHANGED scheduled
             ELSE /\ Len(scheduled) + 2 <= MaxQueue
                  /\ scheduled' = scheduled \o <<"_log", "start_button_normal">>
                  /\ starter' = "none"
    /\ UNCHANGED <<is_running, button, status, gui, closed>>
    /\ UNCHANGED <<weather, recognizer>>

\* the nested start() after self._detector.start() returned
start_thread_started ==
    /\ ~closed
    /\ starter = "started"
    /\ is_running' = TRUE
    /\ after("_update_ui_started")
    /\ starter' = "none"
    /\ UNCHANGED <<button, status, gui, closed>>
    /\ UNCHANGED <<weather, recognizer, detector>>

update_ui_started ==
    /\ Dispatch("_update_ui_started")
    /\ button' = "normal"
    /\ status' = "Listening for wake word..."
    /\ UNCHANGED <<is_running, gui, starter, closed>>
    /\ UNCHANGED <<weather, recognizer, detector>>

\* the lambda of the except clause of the nested start()
start_button_normal ==
    /\ Dispatch("start_button_normal")
    /\ button' = "normal"
    /\ UNCHANGED <<is_running, status, gui, starter, closed>>
    /\ UNCHANGED <<weather, recognizer, detector>>

\* the scheduled _log calls
log ==
    /\ Dispatch("_log")
    /\ UNCHANGED <<is_running, button, status, gui, starter, closed>>
    /\ UNCHANGED <<weather, recognizer, detector>>

process_command ==
    /\ Dispatch("_process_command")
    /\ UNCHANGED <<is_running, button, status, gui, starter, closed>>
    /\ UNCHANGED <<weather, recognizer, detector>>

\* _handle_wake_word up to self._detector.pause()
handle_wake_word ==
    /\ Dispatch("_handle_wake_word")
    /\ status' = "Wake word detected! Listening for command..."
    /\ gui' = "pause"
    /\ UNCHANGED <<is_running, button, starter, closed>>
    /\ UNCHANGED <<weather, recognizer, detector>>

\* _handle_wake_word: self._detector.pause()
handle_wake_word_pause ==
    /\ ~closed
    /\ gui = "pause"
    /\ pause
    /\ gui' = "listen_for_command"
    /\ UNCHANGED <<is_running, button, status, scheduled, starter, closed>>
    /\ UNCHANGED <<weather, recognizer>>

\* _handle_wake_word: self._recognizer.listen_for_command()
handle_wake_word_listen ==
    /\ ~closed
    /\ gui = "listen_for_command"
    /\ listen_for_command
    /\ gui' = "idle"
    /\ UNCHANGED <<is_running, button, status, scheduled, starter, closed>>
    /\ UNCHANGED <<weather, detector>>

\* a _resume_detection that returns without the call of resume()
resume_detection_returns ==
    /\ Dispatch("_resume_detection")
    /\ UNCHANGED <<is_running, button, status, gui, starter, closed>>
    /\ UNCHANGED <<weather, recognizer, detector>>

\* _resume_detection up to self._detector.resume(): `if self._is_running:`
resume_detection ==
    /\ Dispatch("_resume_detection")
    /\ gui' = IF is_running THEN "resume" ELSE "idle"
    /\ UNCHANGED <<is_running, button, status, starter, closed>>
    /\ UNCHANGED <<weather, recognizer, detector>>

\* _resume_detection: self._detector.resume() and the status label
resume_detection_resume ==
    /\ ~closed
    /\ gui = "resume"
    /\ resume
    /\ status' = "Listening for wake word..."
    /\ gui' = "idle"
    /\ UNCHANGED <<is_running, button, scheduled, starter, closed>>
    /\ UNCHANGED <<weather, recognizer>>

\* _on_close: the detector is stopped when the app runs, the window is
\* destroyed, mainloop returns and the process ends: its daemon threads and
\* what was scheduled are gone
on_close ==
    /\ ~closed
    /\ gui = "idle"
    /\ closed' = TRUE
    /\ running' = (running /\ ~is_running)
    /\ stream' = (stream /\ ~is_running)
    /\ audio' = (audio /\ ~is_running)
    /\ thread' = None
    /\ lock' = None
    /\ detectors' = [t \in Threads |-> "none"]
    /\ listeners' = [l \in Listeners |-> "none"]
    /\ callbacks' = [l \in Listeners |-> <<>>]
    /\ scheduled' = <<>>
    /\ starter' = "none"
    /\ UNCHANGED <<is_running, button, status, gui, is_listening>>
    /\ UNCHANGED <<on_wake_word, paused, model>>
    /\ UNCHANGED weather

\* main() of the assistant: the app from root.mainloop() on
Assistant ==
    \/ toggle_listening
    \/ stop_listening_join
    \/ start_thread
    \/ start_thread_started
    \/ update_ui_started
    \/ start_button_normal
    \/ log
    \/ process_command
    \/ handle_wake_word
    \/ handle_wake_word_pause
    \/ handle_wake_word_listen
    \/ resume_detection
    \/ resume_detection_resume
    \/ on_close
    \/ detection_loop
    \/ listen_thread

SpecAssistant == Init /\ [][Assistant]_vars

\* The Tk main thread: mainloop runs what is scheduled in turn, and a call
\* it makes returns when it can return
MainThread ==
    \/ update_ui_started
    \/ start_button_normal
    \/ log
    \/ process_command
    \/ handle_wake_word
    \/ handle_wake_word_pause
    \/ handle_wake_word_listen
    \/ resume_detection
    \/ resume_detection_resume
    \/ stop_listening_join

\* the steps of the detection thread t
DetectionThread(t) ==
    \/ detection_loop_while(t)
    \/ detection_loop_acquire(t)
    \/ detection_loop_paused(t)
    \/ detection_loop_read(t)
    \/ detection_loop_callback(t)

\* the steps of the capture thread l
ListenThread(l) ==
    \/ listen_thread_start(l)
    \/ listen_thread_try(l)
    \/ listen_thread_finally(l)

\* wake words said before the capture of an earlier one has ended
MaxSaid == 1

\* The app with the wake word said MaxSaid times before a capture has ended
AssistantSaid == Assistant /\ Outstanding' <= MaxSaid

\* Every thread that can take a step is scheduled in the end, and mainloop
\* comes to each callback however often the button is clicked; the main
\* thread gets the lock when it is free again and again.
SpecAssistantFair ==
    /\ Init
    /\ [][AssistantSaid]_vars
    /\ SF_vars(MainThread)
    /\ WF_vars(start_thread \/ start_thread_started)
    /\ \A t \in Threads : WF_vars(DetectionThread(t))
    /\ \A l \in Listeners : WF_vars(ListenThread(l))

(***************************************************************************)
(* WakeWordDetector alone, called by one thread in any order; the callback *)
(* is the constructor's default.                                           *)
(***************************************************************************)
InitDetector ==
    /\ MainInit
    /\ WidgetsInit
    /\ DetectorInit(None)
    /\ RecognizerInit

\* detector.start(), which returns or raises
call_start ==
    /\ gui = "idle"
    /\ \E outcome \in StartOutcomes :
          /\ CanStart(outcome)
          /\ start(outcome)
    /\ UNCHANGED <<weather, app, recognizer>>

\* detector.stop() up to the join
call_stop ==
    /\ gui = "idle"
    /\ stop
    /\ gui' = "join"
    /\ UNCHANGED <<is_running, button, status, scheduled, starter, closed>>
    /\ UNCHANGED <<weather, recognizer>>

\* detector.stop() from the return of the join
stop_returns ==
    /\ gui = "join"
    /\ join
    /\ gui' = "idle"
    /\ UNCHANGED <<is_running, button, status, scheduled, starter, closed>>
    /\ UNCHANGED <<weather, recognizer>>

\* detector.pause() is called and waits for the lock
call_pause ==
    /\ gui = "idle"
    /\ gui' = "pause"
    /\ UNCHANGED <<is_running, button, status, scheduled, starter, closed>>
    /\ UNCHANGED <<weather, recognizer, detector>>

pause_returns ==
    /\ gui = "pause"
    /\ pause
    /\ gui' = "idle"
    /\ UNCHANGED <<is_running, button, status, scheduled, starter, closed>>
    /\ UNCHANGED <<weather, recognizer>>

\* detector.resume() is called and waits for the lock
call_resume ==
    /\ gui = "idle"
    /\ gui' = "resume"
    /\ UNCHANGED <<is_running, button, status, scheduled, starter, closed>>
    /\ UNCHANGED <<weather, recognizer, detector>>

resume_returns ==
    /\ gui = "resume"
    /\ resume
    /\ gui' = "idle"
    /\ UNCHANGED <<is_running, button, status, scheduled, starter, closed>>
    /\ UNCHANGED <<weather, recognizer>>

Client ==
    \/ call_start
    \/ call_stop
    \/ stop_returns
    \/ call_pause
    \/ pause_returns
    \/ call_resume
    \/ resume_returns
    \/ detection_loop

SpecDetector == InitDetector /\ [][Client]_vars

\* Every thread that can take a step is scheduled in the end: a call that
\* can return returns, a detection thread that can go on goes on.
SpecDetectorFair ==
    /\ SpecDetector
    /\ WF_vars(stop_returns)
    /\ WF_vars(pause_returns)
    /\ WF_vars(resume_returns)
    /\ \A t \in Threads : WF_vars(DetectionThread(t))


(***************************************************************************)
(* Properties.                                                             *)
(***************************************************************************)
Range(s) == {s[i] : i \in 1..Len(s)}

AllIds == Ids(flares \o cmes \o storms)

\* the event was reached by looking up one of the source's link ids
ResolvedFrom(source, target, index) ==
    \E j \in 1..Len(source.linked_events) :
        Lookup(index, source.linked_events[j]) = Some(target)

\* C1: every pair emitted by create_timeline_chart and by print_event_summary
\* joins a source to the event one of its link ids resolves to, and carries
\* the duration target.start_time - source.start_time.
C1_ElapsedIsTargetMinusSource ==
    /\ \A k \in 1..Len(connection_lines) :
          LET p == connection_lines[k]
          IN  /\ ResolvedFrom(p.source, p.target, IndexAll(flares, cmes, storms))
              /\ p.hours = p.target.start_time - p.source.start_time
    /\ \A k \in 1..Len(travel_times) :
          LET p == travel_times[k]
          IN  /\ ResolvedFrom(p.source, p.target, IndexAll(flares, cmes, storms))
              /\ p.hours = p.target.start_time - p.source.start_time

C1_Witness ==
    /\ pc = "done"
    /\ \E k \in 1..Len(connection_lines) :
          /\ connection_lines[k].source.event_type = "FLR"
          /\ connection_lines[k].hours > 0
    /\ \E k \in 1..Len(travel_times) : travel_times[k].hours < 0

\* C2: no pair whose target starts before its source is drawn as an arrow by
\* create_timeline_chart or entered in the travel times that
\* print_event_summary averages (the code has no flag, so such a pair would
\* have to be left out).
C2_NoNegativePropagation ==
    /\ \A k \in 1..Len(connection_lines) :
          ~(connection_lines[k].target.start_time
              < connection_lines[k].source.start_time)
    /\ \A k \in 1..Len(travel_times) :
          ~(travel_times[k].target.start_time
              < travel_times[k].source.start_time)

\* a flare or CME all of whose link ids are absent from the three lists
Dangling(e) ==
    /\ e.linked_events # <<>>
    /\ \A j \in 1..Len(e.linked_events) : e.linked_events[j] \notin AllIds

PairLists == <<connection_lines, travel_times, flr_cme_pairs, cme_gst_pairs>>

\* C3 as stated: an event with only dangling links is in no pair (as source
\* or as target) and in no chain of any derivation, and no error is raised.
C3_DanglingInNoPairAtAll ==
    \A e \in Range(flares \o cmes) :
        Dangling(e) =>
            /\ \A n \in 1..Len(PairLists) : \A k \in 1..Len(PairLists[n]) :
                  PairLists[n][k].source # e /\ PairLists[n][k].target # e
            /\ \A k \in 1..Len(full_chains) :
                  full_chains[k].flare # e /\ full_chains[k].cme # e
            /\ exc = "none" /\ pc # "raised"

\* C3 (amended): an event with only dangling links is the source of no pair
\* and part of no chain in any derivation, and no error is raised.
C3_DanglingLinksSkipped ==
    \A e \in Range(flares \o cmes) :
        Dangling(e) =>
            /\ \A n \in 1..Len(PairLists) : \A k \in 1..Len(PairLists[n]) :
                  PairLists[n][k].source # e
            /\ \A k \in 1..Len(full_chains) :
                  full_chains[k].flare # e /\ full_chains[k].cme # e
            /\ exc = "none" /\ pc # "raised"

C3_Witness ==
    /\ pc = "done"
    /\ \E e \in Range(flares) : Dangling(e)
    /\ \E e \in Range(cmes) : Dangling(e)
    /\ charts = {"space_weather_timeline.png", "chart_flares.png",
                 "chart_cme.png", "chart_gst.png", "chart_flr_vs_cme.png",
                 "chart_cme_vs_gst.png", "chart_flr_vs_gst.png"}
    /\ connection_lines # <<>>

\* a < b in the order of the nested loops
PathBefore(a, b) ==
    \/ a[1] < b[1]
    \/ a[1] = b[1] /\ a[2] < b[2]
    \/ a[1] = b[1] /\ a[2] = b[2] /\ a[3] < b[3]

Triple(chain) == <<chain.flare, chain.cme, chain.gst>>

\* the scenario of C4: two flares that each link to the one CME, which links
\* to the one storm
TwoFlaresOneCme ==
    /\ Len(flares) = 2 /\ Len(cmes) = 1 /\ Len(storms) = 1
    /\ Cardinality({flares[1].event_id, flares[2].event_id,
                    cmes[1].event_id, storms[1].event_id}) = 4
    /\ flares[1].linked_events = <<cmes[1].event_id>>
    /\ flares[2].linked_events = <<cmes[1].event_id>>
    /\ cmes[1].linked_events = <<storms[1].event_id>>

\* C4: full_chains is in the order of the loops (flares outermost in list
\* order, then the flare's links in link order, then the CME's links in link
\* order), holds one chain for every path that resolves, and for flares
\* [F1, F2] -> C1 -> G1 it is exactly (F1, C1, G1), (F2, C1, G1).
C4_ChainsInIterationOrder ==
    LET index == IndexAll(flares, cmes, storms)
    IN  /\ \A a, b \in 1..Len(full_chains) :
              a < b => PathBefore(full_chains[a].path, full_chains[b].path)
        /\ \A a \in 1..Len(full_chains) :
              LET c == full_chains[a]
              IN  /\ c.flare = flares[c.path[1]]
                  /\ Lookup(index, c.flare.linked_events[c.path[2]]) = Some(c.cme)
                  /\ Lookup(index, c.cme.linked_events[c.path[3]]) = Some(c.gst)
                  /\ c.cme.event_type = "CME" /\ c.gst.event_type = "GST"
        /\ (pc = "done" /\ flares # <<>> /\ storms # <<>>) =>
              \A i \in 1..Len(flares) : \A j \in 1..Len(flares[i].linked_events) :
                  LET cme == Lookup(index, flares[i].linked_events[j])
                  IN  (cme # None /\ cme[1].event_type = "CME") =>
                        \A k \in 1..Len(cme[1].linked_events) :
                            LET gst == Lookup(index, cme[1].linked_events[k])
                            IN  (gst # None /\ gst[1].event_type = "GST") =>
                                  \E a \in 1..Len(full_chains) :
                                      full_chains[a].path = <<i, j, k>>
        /\ (pc = "done" /\ TwoFlaresOneCme) =>
              [a \in 1..Len(full_chains) |-> Triple(full_chains[a])]
                  = << <<flares[1], cmes[1], storms[1]>>,
                       <<flares[2], cmes[1], storms[1]>> >>

C4_Witness == pc = "done" /\ TwoFlaresOneCme /\ Len(full_chains) = 2

Downstream == {<<"FLR", "CME">>, <<"FLR", "GST">>, <<"CME", "GST">>}

\* C5: every pair create_timeline_chart emits is Flare->CME, Flare->Storm or
\* CME->Storm.
C5_OnlyDownstreamPairs ==
    \A k \in 1..Len(connection_lines) :
        <<connection_lines[k].source.event_type,
          connection_lines[k].target.event_type>> \in Downstream

\* ids a lookup may be asked for: every link id and every event id
AskedIds == LinkIds \cup FlrIds \cup CmeIds \cup GstIds \cup {""}

\* C6: the index over the three lists returns for an id an event of the lists
\* that has this id, and "not found" for an id that is in none of the lists;
\* so every arrow of the timeline ends at an event of the lists whose id is
\* one of the source's link ids.
C6_IndexReturnsInserted ==
    LET index == IndexAll(flares, cmes, storms)
        inserted == Range(flares) \cup Range(cmes) \cup Range(storms)
    IN  /\ \A id \in AskedIds :
              IF \E e \in inserted : e.event_id = id
              THEN /\ Lookup(index, id) # None
                   /\ Lookup(index, id)[1] \in inserted
                   /\ Lookup(index, id)[1].event_id = id
              ELSE Lookup(index, id) = None
        /\ \A k \in 1..Len(connection_lines) :
              /\ connection_lines[k].target \in inserted
              /\ connection_lines[k].target.event_id
                    \in Range(connection_lines[k].source.linked_events)
        /\ pc \in {"flare_chart", "done"} =>
              \A e \in Range(flares) : \A id \in Range(e.linked_events) :
                  (\E g \in Range(storms) : g.event_id = id) =>
                      \E k \in 1..Len(connection_lines) :
                          /\ connection_lines[k].source = e
                          /\ connection_lines[k].target.event_id = id

C6_Witness ==
    /\ pc = "flare_chart"
    /\ \E e \in Range(flares) : \E id \in Range(e.linked_events) :
          /\ id \notin AllIds
          /\ \E id2 \in Range(e.linked_events) : id2 \in Ids(storms)
    /\ connection_lines # <<>>

\* C7: an id carried by several events maps to the one inserted last, the
\* order being flares, CMEs, storms: a storm wins over a CME and a flare, a
\* CME over a flare, and within a list the later event.
C7_LastInsertedWins ==
    LET all == flares \o cmes \o storms
        index == IndexAll(flares, cmes, storms)
    IN  /\ \A i \in 1..Len(all) :
              (\A j \in (i+1)..Len(all) : all[j].event_id # all[i].event_id)
                  => index[all[i].event_id] = all[i]
        /\ \A id \in AllIds :
              /\ id \in Ids(storms) => index[id].event_type = "GST"
              /\ (id \in Ids(cmes) /\ id \notin Ids(storms))
                    => index[id].event_type = "CME"
        /\ \A k \in 1..Len(connection_lines) :
              connection_lines[k].target.event_id \in Ids(storms)
                  => connection_lines[k].target.event_type = "GST"

C7_Witness ==
    /\ pc = "done"
    /\ \E id \in Ids(cmes) \cap Ids(storms) :
          \E k \in 1..Len(connection_lines) :
              connection_lines[k].target.event_id = id
    /\ \E id \in (Ids(flares) \cap Ids(cmes)) \ Ids(storms) :
          \E k \in 1..Len(connection_lines) :
              connection_lines[k].target.event_id = id


\* the body received for a type, <<>> before a successful response
Body(type) ==
    IF raw[type] # None /\ raw[type][1].status = "ok"
    THEN raw[type][1].data ELSE <<>>

StartField(type, record) ==
    IF type = "FLR" THEN record.beginTime ELSE record.startTime

\* the required start time is missing or is no timestamp
BadStart(type, record) ==
    \/ StartField(type, record) = None
    \/ StartField(type, record)[1].zone \notin {"Z", "+00:00"}

\* C8: every event the fetch functions return has its start_time (the hour of
\* the record's start field); end_time is None on every CME and storm, and a
\* flare has an end_time exactly when its record has an endTime.
C8_StartSetEndOnlyOnFlares ==
    /\ \A t \in Types : \A i \in 1..Len(EventsOf(t)) :
          /\ EventsOf(t)[i].start_time \in Nat
          /\ EventsOf(t)[i].start_time = StartField(t, Body(t)[i])[1].hours
          /\ EventsOf(t)[i].event_type = t
          /\ t \in {"CME", "GST"} => EventsOf(t)[i].end_time = None
    /\ \A i \in 1..Len(flares) :
          /\ Body("FLR")[i].endTime = None => flares[i].end_time = None
          /\ Body("FLR")[i].endTime # None =>
                flares[i].end_time = Some(Body("FLR")[i].endTime[1].hours)

C8_Witness ==
    /\ pc = "summary"
    /\ \E i, j \in 1..Len(flares) :
          flares[i].end_time = None /\ flares[j].end_time # None
    /\ cmes # <<>>
    /\ storms # <<>>

\* C9: a body holding a record whose start time is missing or malformed makes
\* the fetch raise and return nothing, also when records before it were
\* normalized; main re-raises, so nothing is fetched, summarized or charted
\* after it.
C9_BadStartAbortsRun ==
    \A t \in Types :
        (\E i \in 1..Len(Body(t)) : BadStart(t, Body(t)[i])) =>
            /\ pc = "raised"
            /\ exc \in {"KeyError", "ValueError"}
            /\ EventsOf(t) = <<>>
            /\ \A u \in Types : requests[u] = (IF raw[u] = None THEN 0 ELSE 1)
            /\ "summary" \notin Range(printed)
            /\ charts = {}
            /\ derived = <<<<>>, <<>>, <<>>, <<>>, <<>>, <<>>>>

C9_Witness ==
    /\ pc = "raised"
    /\ flares # <<>>
    /\ Len(Body("CME")) = 2
    /\ ~BadStart("CME", Body("CME")[1])
    /\ BadStart("CME", Body("CME")[2])
    /\ raw["GST"] = None

\* C10: each endpoint is requested at most once; when a request fails (no
\* connection, or a non-success status) the run ends there: no later fetch,
\* no summary, no chart, and the two lines naming the failure and asking to
\* check the connection are printed.
C10_FetchFailureAbortsRun ==
    /\ \A t \in Types : requests[t] <= 1
    /\ \A t \in Types :
          (raw[t] # None /\ raw[t][1].status # "ok") =>
              /\ pc = "returned"
              /\ exc = "RequestException"
              /\ \A u \in Types : requests[u] = (IF raw[u] = None THEN 0 ELSE 1)
              /\ \A u \in Types : u # t /\ raw[u] # None => raw[u][1].status = "ok"
              /\ (t = "FLR" => raw["CME"] = None /\ raw["GST"] = None)
              /\ (t = "CME" => raw["GST"] = None)
              /\ "summary" \notin Range(printed)
              /\ charts = {}
              /\ Len(printed) >= 2
              /\ printed[Len(printed) - 1] = "error_fetching_data"
              /\ printed[Len(printed)] = "check_connection"

C10_Witness ==
    /\ pc = "returned"
    /\ flares # <<>>
    /\ raw["CME"] # None
    /\ raw["CME"][1].status = "http_error"

\* the chart files main saves for the three lists when every chart succeeds
ExpectedCharts ==
    (IF flares # <<>> \/ cmes # <<>> \/ storms # <<>>
     THEN {"space_weather_timeline.png"} ELSE {})
    \cup (IF flares # <<>> THEN {"chart_flares.png"} ELSE {})
    \cup (IF cmes # <<>> THEN {"chart_cme.png"} ELSE {})
    \cup (IF storms # <<>> THEN {"chart_gst.png"} ELSE {})
    \cup (IF flares # <<>> /\ cmes # <<>> THEN {"chart_flr_vs_cme.png"} ELSE {})
    \cup (IF cmes # <<>> /\ storms # <<>> THEN {"chart_cme_vs_gst.png"} ELSE {})
    \cup (IF flares # <<>> /\ storms # <<>> THEN {"chart_flr_vs_gst.png"} ELSE {})

Ended == pc \in {"done", "returned", "raised"}

\* C11: a run that has ended either succeeded throughout (summary printed and
\* the whole chart set saved) or produced nothing (no summary printed, no
\* chart saved), whichever step failed.
C11_AllOrNothing ==
    Ended =>
        \/ /\ pc = "done"
           /\ exc = "none"
           /\ "summary" \in Range(printed)
           /\ charts = ExpectedCharts
        \/ /\ pc \in {"returned", "raised"}
           /\ "summary" \notin Range(printed)
           /\ charts = {}

HoursPerDay == 24

\* flares = [F1 at 00:00 -> C1], CMEs = [C1 at 02:00 -> G1], storms = [G1 at
\* 14:00 the next day], the ids distinct
EndToEndScenario ==
    /\ Len(flares) = 1 /\ Len(cmes) = 1 /\ Len(storms) = 1
    /\ flares[1].event_id = "F1" /\ flares[1].start_time = 0
    /\ flares[1].linked_events = <<"C1">>
    /\ cmes[1].event_id = "C1" /\ cmes[1].start_time = 2
    /\ cmes[1].linked_events = <<"G1">>
    /\ storms[1].event_id = "G1" /\ storms[1].start_time = 38

\* C12: in the end-to-end scenario the run yields exactly the pair (F1, C1)
\* of 2 h, exactly the pair (C1, G1) of 36 h, exactly the chain (F1, C1, G1),
\* and the average CME->Storm travel time 36 h = 1.5 days.
C12_EndToEnd ==
    (pc = "done" /\ EndToEndScenario) =>
        /\ flr_cme_pairs = << [source |-> flares[1], target |-> cmes[1]] >>
        /\ cme_gst_pairs = << [source |-> cmes[1], target |-> storms[1]] >>
        /\ cme_gst_hours = <<36>>
        /\ connection_lines =
              << [source |-> flares[1], target |-> cmes[1], hours |-> 2],
                 [source |-> cmes[1], target |-> storms[1], hours |-> 36] >>
        /\ Len(full_chains) = 1
        /\ Triple(full_chains[1]) = <<flares[1], cmes[1], storms[1]>>
        /\ Hours(travel_times) = <<36>>
        /\ avg_time # None
        /\ avg_time[1].sum = 36 * avg_time[1].len
        /\ 10 * avg_time[1].sum = 15 * HoursPerDay * avg_time[1].len
        /\ "average_travel_time" \in Range(printed)

C12_Witness ==
    /\ pc = "done"
    /\ EndToEndScenario
    /\ Len(full_chains) = 1
    /\ avg_time # None

\* C13 as stated: whenever the list of some type is empty, the summary
\* reports count 0 for it and prints no average travel time, the storm
\* statistics show no min/max/mean, and nothing raises.
C13_AnyEmptyListOmitsAverage ==
    \A t \in Types :
        (EventsOf(t) = <<>> /\ counts # None) =>
            /\ counts[1][t] = 0
            /\ avg_time = None
            /\ "average_travel_time" \notin Range(printed)
            /\ (t = "GST" => stats_text = None)
            /\ exc = "none" /\ pc # "raised"

\* C13 (amended): for every combination of empty and non-empty lists the
\* summary reports the length of each list (0 for an empty one), prints the
\* average exactly when some CME->GST pair resolved (so never when the CME or
\* the storm list is empty, and never dividing by zero), the storm statistics
\* carry no min/max/mean when there is no storm, and nothing raises.
C13_EmptyAggregation ==
    /\ exc = "none" /\ pc # "raised"
    /\ counts # None =>
          /\ \A t \in Types : counts[1][t] = Len(EventsOf(t))
          /\ (avg_time = None) <=> (travel_times = <<>>)
          /\ (avg_time = None) <=> ("average_travel_time" \notin Range(printed))
          /\ (cmes = <<>> \/ storms = <<>>) => avg_time = None
          /\ avg_time # None => avg_time[1].len > 0
    /\ storms = <<>> =>
          /\ stats_text = None
          /\ "chart_gst.png" \notin charts
    /\ GstStatistics(<<>>).kp = None /\ GstStatistics(<<>>).total = 0
    /\ stats_text # None =>
          /\ stats_text[1].total = Len(storms)
          /\ stats_text[1].kp # None
          /\ stats_text[1].kp[1].average.len = Len(storms)

C13_Witness ==
    /\ pc = "done"
    /\ flares = <<>>
    /\ cmes # <<>>
    /\ storms # <<>>
    /\ counts = Some([t \in Types |-> Len(EventsOf(t))])
    /\ avg_time # None
    /\ stats_text # None

\* the link positions <<i, j>> of the CMEs whose id resolves to a storm
CmeGstLinks ==
    LET index == IndexAll(flares, cmes, storms)
    IN  {p \in (1..Len(cmes)) \X (1..MaxLinksTotal) :
            /\ p[2] <= Len(cmes[p[1]].linked_events)
            /\ Lookup(index, cmes[p[1]].linked_events[p[2]]) # None
            /\ Lookup(index, cmes[p[1]].linked_events[p[2]])[1].event_type = "GST"}

\* elapsed hours of the link at position p
ElapsedAt(p) ==
    IndexAll(flares, cmes, storms)[cmes[p[1]].linked_events[p[2]]].start_time
        - cmes[p[1]].start_time

RECURSIVE SumElapsed(_)
SumElapsed(P) ==
    IF P = {} THEN 0
    ELSE LET p == CHOOSE q \in P : TRUE
         IN  ElapsedAt(p) + SumElapsed(P \ {p})

\* C14: the average print_event_summary prints is the sum of the elapsed hours
\* of all CME links that resolve to a storm divided by their number; a link
\* of negative or zero elapsed time counts in the sum and in the number.
C14_AverageOverAllPairs ==
    counts # None =>
        /\ Len(travel_times) = Cardinality(CmeGstLinks)
        /\ CmeGstLinks # {} =>
              /\ avg_time # None
              /\ avg_time[1].sum = SumElapsed(CmeGstLinks)
              /\ avg_time[1].len = Cardinality(CmeGstLinks)
        /\ CmeGstLinks = {} => avg_time = None

C14_Witness ==
    /\ counts # None
    /\ Cardinality(CmeGstLinks) >= 2
    /\ \E p \in CmeGstLinks : ElapsedAt(p) < 0
    /\ avg_time # None
    /\ avg_time[1].sum < 0

\* C15: a CME's intensity is composed of the type and the speed of the first
\* entry of its analysis list, whatever the later entries are, and is "N/A"
\* for a CME without an analysis entry.
C15_FirstAnalysisOnly ==
    \A i \in 1..Len(cmes) :
        LET a == Body("CME")[i].cmeAnalyses
            intensity == cmes[i].intensity
        IN  /\ (a = None \/ a = Some(<<>>)) => intensity = "N/A"
            /\ (a # None /\ a # Some(<<>>)) =>
                  /\ intensity # "N/A"
                  /\ \A r \in NormCmes :
                        (r.cmeAnalyses # None /\ r.cmeAnalyses # Some(<<>>)
                           /\ r.cmeAnalyses[1][1] = a[1][1])
                          => NormalizeCme(r).event[1].intensity = intensity
                  /\ (a[1][1].type # None /\ a[1][1].speed # None) =>
                        intensity = ToString(<<a[1][1].type[1], a[1][1].speed[1]>>)

C15_Witness ==
    /\ pc = "done"
    /\ \E i \in 1..Len(cmes) :
          LET a == Body("CME")[i].cmeAnalyses
          IN  /\ a # None /\ Len(a[1]) = 2
              /\ a[1][1].speed = Some(800) /\ a[1][2].speed = Some(1200)
              /\ cmes[i].intensity = ToString(<<"S", 800>>)
    /\ \E i \in 1..Len(cmes) : cmes[i].intensity = "N/A"

\* the kpIndex values the readings carry
KpCarried(rs) == {rs[j][1] : j \in {k \in 1..Len(rs) : rs[k] # None}}

\* C16 as stated: the intensity of a storm with sub-readings is "Kp" with the
\* maximum kpIndex its readings carry, and "Unknown" without sub-readings.
C16_MaxKpOverReadings ==
    \A i \in 1..Len(storms) :
        LET k == Body("GST")[i].allKpIndex
        IN  /\ (k = None \/ k = Some(<<>>)) => storms[i].intensity = "Unknown"
            /\ (k # None /\ k # Some(<<>>) /\ KpCarried(k[1]) # {}) =>
                  storms[i].intensity = ToString(<<"Kp", Last(KpCarried(k[1]))>>)

\* C16 (amended): readings are compared by kpIndex with a reading that has
\* none counting as 0; the first reading of maximal key is chosen; the
\* intensity is "Kp" with its kpIndex, or "Kp N/A" if it has none; it is
\* "Unknown" for a storm without sub-readings.  When every reading carries a
\* kpIndex this is "Kp" with the maximum.
C16_FirstMaxKpDefaultZero ==
    \A i \in 1..Len(storms) :
        LET k == Body("GST")[i].allKpIndex
        IN  /\ (k = None \/ k = Some(<<>>)) => storms[i].intensity = "Unknown"
            /\ (k # None /\ k # Some(<<>>)) =>
                  LET rs == k[1]
                      top == Last({KpKey(rs[j]) : j \in 1..Len(rs)})
                      pos == First({j \in 1..Len(rs) : KpKey(rs[j]) = top})
                  IN  /\ storms[i].intensity =
                            (IF rs[pos] = None THEN ToString(<<"Kp", "N/A">>)
                             ELSE ToString(<<"Kp", rs[pos][1]>>))
                      /\ (\A j \in 1..Len(rs) : rs[j] # None) =>
                            storms[i].intensity =
                                ToString(<<"Kp", Last(KpCarried(rs))>>)

C16_Witness ==
    /\ pc = "done"
    /\ \E i \in 1..Len(storms) :
          /\ Body("GST")[i].allKpIndex = Some(<<Some(5), Some(7), Some(7)>>)
          /\ storms[i].intensity = ToString(<<"Kp", 7>>)
    /\ \E i \in 1..Len(storms) :
          /\ Body("GST")[i].allKpIndex = Some(<<None, Some(0)>>)
          /\ storms[i].intensity = ToString(<<"Kp", "N/A">>)

\* the link paths <<i, j, k>>: flare i, its j-th link resolving to a CME, the
\* k-th link of that CME resolving to a storm
ChainPaths ==
    LET index == IndexAll(flares, cmes, storms)
    IN  {p \in (1..Len(flares)) \X (1..MaxLinksTotal) \X (1..MaxLinksTotal) :
            /\ p[2] <= Len(flares[p[1]].linked_events)
            /\ LET cme == Lookup(index, flares[p[1]].linked_events[p[2]])
               IN  /\ cme # None /\ cme[1].event_type = "CME"
                   /\ p[3] <= Len(cme[1].linked_events)
                   /\ LET gst == Lookup(index, cme[1].linked_events[p[3]])
                      IN  gst # None /\ gst[1].event_type = "GST"}

\* the (flare, CME, storm) triple that path p leads through
TripleOfPath(p) ==
    LET index == IndexAll(flares, cmes, storms)
        cme == index[flares[p[1]].linked_events[p[2]]]
    IN  <<flares[p[1]], cme, index[cme.linked_events[p[3]]]>>

\* C17: create_pairwise_flr_gst emits one chain per link path and does not
\* deduplicate: the chains are as many as the paths, and a triple reachable
\* along n paths is in the list n times.
C17_OneChainPerPath ==
    (pc = "done" /\ flares # <<>> /\ storms # <<>>) =>
        /\ Len(full_chains) = Cardinality(ChainPaths)
        /\ {full_chains[a].path : a \in 1..Len(full_chains)} = ChainPaths
        /\ \A p \in ChainPaths :
              Cardinality({a \in 1..Len(full_chains) :
                              Triple(full_chains[a]) = TripleOfPath(p)})
                = Cardinality({q \in ChainPaths : TripleOfPath(q) = TripleOfPath(p)})

C17_Witness ==
    /\ pc = "done"
    /\ \E a, b \in 1..Len(full_chains) :
          /\ a # b
          /\ Triple(full_chains[a]) = Triple(full_chains[b])
          /\ full_chains[a].path[2] # full_chains[b].path[2]
    /\ Cardinality(ChainPaths) = Len(full_chains)

\* C18: an event that has an end time does not end before it starts.
C18_EndNotBeforeStart ==
    \A t \in Types : \A i \in 1..Len(EventsOf(t)) :
        EventsOf(t)[i].end_time # None =>
            EventsOf(t)[i].end_time[1] >= EventsOf(t)[i].start_time

\* C19: linked_events holds the activityID of each linkedEvents entry, in the
\* order of the entries and as many as there are entries (a repeated id is
\* repeated), and is empty for a record whose linkedEvents is missing or
\* empty; with repeated ids and ids of no fetched event among the links,
\* neither the fetch nor any derivation raises and the run completes.
C19_LinksKeptInOrder ==
    /\ \A t \in Types : \A i \in 1..Len(EventsOf(t)) :
          LET l == Body(t)[i].linkedEvents
              links == EventsOf(t)[i].linked_events
          IN  /\ (l = None \/ l = Some(<<>>)) => links = <<>>
              /\ (l # None /\ l # Some(<<>>)) =>
                    /\ Len(links) = Len(l[1])
                    /\ \A j \in 1..Len(l[1]) :
                          l[1][j] # None => links[j] = l[1][j][1]
    /\ exc = "none" /\ pc # "raised"
    /\ pc = "done" => charts = ExpectedCharts

C19_Witness ==
    /\ pc = "done"
    /\ \E i, j \in 1..Len(flares) :
          /\ flares[i].linked_events = <<"C1", "C1">>
          /\ flares[j].linked_events = <<"G9", "", "G1">>
    /\ Len(flr_cme_pairs) = 2
    /\ Len(full_chains) = 2
    /\ charts = ExpectedCharts

LinkCount(events) ==
    SumSeq([i \in 1..Len(events) |-> Len(events[i].linked_events)])

LongestLinks(events) ==
    IF events = <<>> THEN 0
    ELSE MaxOf([i \in 1..Len(events) |-> Len(events[i].linked_events)])

\* some link leads back: a CME links to a flare that links to it, an event
\* links to itself, or two CMEs link to each other
CyclicLinks ==
    LET links(e) == Range(e.linked_events)
    IN  \/ \E f \in Range(flares), c \in Range(cmes) :
              /\ f.event_id # c.event_id
              /\ c.event_id \in links(f) /\ f.event_id \in links(c)
        \/ \E e \in Range(flares \o cmes) : e.event_id \in links(e)
        \/ \E c, d \in Range(cmes) :
              /\ c.event_id # d.event_id
              /\ d.event_id \in links(c) /\ c.event_id \in links(d)

\* a link is followed from a flare or a CME to the event it names and, in a
\* chain, once more from that CME: no derivation goes further (each target is
\* named by a link of its source), so each list is at most as long as the
\* link lists it walked
TwoHopBounds ==
    /\ Len(connection_lines) <= LinkCount(flares) + LinkCount(cmes)
    /\ Len(travel_times) <= LinkCount(cmes)
    /\ Len(flr_cme_pairs) <= LinkCount(flares)
    /\ Len(cme_gst_pairs) <= LinkCount(cmes)
    /\ \A a \in 1..Len(connection_lines) :
          connection_lines[a].target.event_id
              \in Range(connection_lines[a].source.linked_events)
    /\ \A a \in 1..Len(full_chains) :
          /\ full_chains[a].cme.event_id
                \in Range(full_chains[a].flare.linked_events)
          /\ full_chains[a].gst.event_id
                \in Range(full_chains[a].cme.linked_events)
    /\ Len(full_chains) <= LinkCount(flares) * LongestLinks(cmes)
    /\ \A i \in 1..Len(flares) :
          Cardinality({a \in 1..Len(full_chains) : full_chains[a].path[1] = i})
            <= Len(flares[i].linked_events) * LongestLinks(cmes)

\* C20: every run of the derivations ends, cyclic link graphs included, and
\* the pairs and chains it produced are bounded by the lengths (for chains
\* the product of the lengths) of the link lists walked.
C20_TerminatesWithinTwoHops == []TwoHopBounds /\ <>(pc = "done")

C20_Witness ==
    /\ pc = "done"
    /\ CyclicLinks
    /\ connection_lines # <<>>
    /\ full_chains # <<>>

(***************************************************************************)
(* The wake-word assistant.                                                *)
(***************************************************************************)
\* a command capture was started and has not ended
Capturing == \E l \in Listeners : listeners[l] # "none"

\* C21: a handled wake word pauses the detector and then starts the command
\* capture (the detector is paused when listen_for_command is called, and
\* the call follows once _handle_wake_word waits in pause()); and from the
\* finally clause of any capture the detector comes to be resumed, unless
\* the app is no longer running (stopped, or its window closed).
C21_WakeWordCycle ==
    /\ [](gui = "listen_for_command" => paused)
    /\ (gui = "pause") ~> (\E l \in Listeners : listeners[l] = "start")
    /\ \A l \in Listeners :
          (listeners[l] = "finally") ~> (~paused \/ ~is_running \/ closed)

\* _resume_detection has found the app running and calls resume() on the
\* paused detector after a capture
C21_Witness ==
    /\ gui = "resume"
    /\ paused
    /\ is_running
    /\ ~Capturing
    /\ status = "Wake word detected! Listening for command..."

\* what a capture thread has invoked when it is at each of its positions
CallbacksAt(l) ==
    CASE listeners[l] \in {"none", "start"} -> {<<>>}
      [] listeners[l] = "try" -> {<<"on_listening_start">>}
      [] listeners[l] = "finally" ->
            {<<"on_listening_start", r>> : r \in {"on_result", "on_error"}}

\* the capture thread l ends in this step (the process does not)
ListenThreadEnds(l) ==
    listeners[l] = "finally" /\ listeners'[l] = "none" /\ ~closed'

\* C22: a capture thread invokes on_listening_start once, then exactly one
\* of on_result and on_error, and whenever it ends it has invoked
\* on_listening_end after them: the thread ends only from its finally
\* clause, and in ending it schedules _resume_detection, which is what the
\* app's on_listening_end does.
C22_CallbacksInOrder ==
    /\ [](\A l \in Listeners : callbacks[l] \in CallbacksAt(l))
    /\ [][\A l \in Listeners :
             ListenThreadEnds(l) =>
                scheduled' = Append(scheduled, "_resume_detection")]_vars

\* a capture that ended with an error is in its finally clause
C22_Witness ==
    \E l \in Listeners :
        /\ listeners[l] = "finally"
        /\ callbacks[l] = <<"on_listening_start", "on_error">>

\* the detection thread t reads a chunk from the open stream in this step
ReadsAudio(t) ==
    detectors[t] = "read" /\ detectors'[t] # "read" /\ stream /\ ~closed'

\* the detection thread t invokes on_wake_word in this step
InvokesCallback(t) ==
    detectors[t] = "callback" /\ detectors'[t] = "while"

\* C23: while _paused is set (pause() has returned, resume() has not run)
\* no detection thread reads audio and none invokes on_wake_word.
C23_NoDetectionWhilePaused ==
    [][\A t \in Threads : (ReadsAudio(t) \/ InvokesCallback(t)) => ~paused]_vars

\* the detection threads that exist
DetectionThreads == {t \in Threads : detectors[t] # "none"}

\* C24: start() on a running detector changes nothing of the detector (no
\* thread, no stream, no model), and after any sequence of start, stop,
\* pause and resume calls at most one detection thread exists.
C24_AtMostOneDetectionThread ==
    /\ [][(running /\ call_start) => UNCHANGED detector]_vars
    /\ [](Cardinality(DetectionThreads) <= 1)

\* no wake word is being handled and no command capture is under way: no
\* _handle_wake_word or _resume_detection is scheduled or running and no
\* capture thread exists
NoCapture ==
    /\ gui = "idle"
    /\ ~Capturing
    /\ \A i \in 1..Len(scheduled) :
          scheduled[i] \notin {"_handle_wake_word", "_resume_detection"}

\* C25: when the app is running (its window open) and shows "Listening for
\* wake word..." and no command capture is in progress, the detector is not
\* paused.
C25_RunningMeansNotPaused ==
    (/\ ~closed
     /\ is_running
     /\ status = "Listening for wake word..."
     /\ NoCapture) => ~paused

\* the capture threads that exist
ListenThreads == {l \in Listeners : listeners[l] # "none"}

\* C26: at most one capture thread exists at any time.
C26_AtMostOneCapture == Cardinality(ListenThreads) <= 1

\* _stop_listening has completed (or Start was never clicked) and no Start
\* has been clicked since
Stopped ==
    /\ ~closed
    /\ ~is_running
    /\ starter = "none"
    /\ button = "normal"

\* C27: while the app is stopped the main thread is neither in the pause()
\* nor at the listen_for_command() of _handle_wake_word.
C27_NoCaptureWhenStopped ==
    Stopped => gui \notin {"pause", "listen_for_command"}

\* a detection thread is about to read a chunk of audio
Reading == \E t \in Threads : detectors[t] = "read"

\* a resume() that waits for the lock comes to clear _paused, and a running,
\* unpaused detector with a thread comes to read audio (or is paused or
\* stopped again first)
ResumeTakesEffect ==
    /\ (gui = "resume") ~> ~paused
    /\ (~paused /\ running /\ DetectionThreads # {})
          ~> (Reading \/ paused \/ ~running)

SameMean(a, b) ==
    IF a = None \/ b = None
    THEN a = b
    ELSE a[1].sum * b[1].len = b[1].sum * a[1].len

\* C29: at the end of main the average print_event_summary prints is the
\* mean the travel-time panel of create_pairwise_cme_gst shows (np.mean of
\* its travel_times, where it has any), both absent or both the same number.
C29_SummaryMeanIsPanelMean ==
    pc = "done" => SameMean(avg_time, Average(cme_gst_hours))

\* the arrows of create_timeline_chart from a flare to a CME, as pairs
TimelineFlrCme ==
    LET arrows == SelectSeq(connection_lines,
                      LAMBDA a : /\ a.source.event_type = "FLR"
                                 /\ a.target.event_type = "CME")
    IN  [i \in 1..Len(arrows) |->
            [source |-> arrows[i].source, target |-> arrows[i].target]]

\* C30: at the end of main the flare->CME pairs of create_pairwise_flr_cme
\* are the flare->CME arrows of create_timeline_chart and, where the
\* flare/storm chart is drawn, the flare->CME hops of create_pairwise_flr_gst.
C30_SameFlareCmePairs ==
    pc = "done" =>
        /\ TimelineFlrCme = flr_cme_pairs
        /\ (flares # <<>> /\ storms # <<>>) =>
              FlrGstHops(flares, cmes, storms) = flr_cme_pairs

====
